---- MODULE Spec2Model ----
(***************************************************************************)
(* Model of the run-scoped modifier engine (modifiers.js), the elite affix *)
(* system and the dungeon generator (elite-affixes.js) of the roguelike    *)
(* engine.                                                                 *)
(*                                                                         *)
(* Numbers.  Stat values are exact integers.  Player and global stats are  *)
(* in their own unit; elite stats (speed, maxHealth, damageReduction,      *)
(* speedMult, lifesteal) are in hundredths, so that 0.15 is 15 and 2 is    *)
(* 200.  A 'mult' value is an integer factor.                              *)
(*                                                                         *)
(* Objects.  A modifier is a JavaScript object; the start-time maps are    *)
(* keyed by the object itself, so the maps of the model are keyed by the   *)
(* modifier record.  Every registration passes a new object literal.  The  *)
(* field obj tells apart objects with equal fields: it is the instant of   *)
(* registration of a modifier with a duration and NoDuration otherwise.    *)
(* Two objects with equal fields and equal obj are matched by the same     *)
(* filters, expire at the same instant and are never read apart, so no     *)
(* operation of the engine distinguishes them.                             *)
(*                                                                         *)
(* Dungeon.  generateDungeon is modelled step by step, one action per loop *)
(* iteration, with every outcome of Math.random allowed.  The adjacency    *)
(* Sets are kept as sets of room ids; the order of a room's doors and the  *)
(* shuffle of its walls are not stored in the state: DoorsOf gives every   *)
(* door list a room of the result can have.                                *)
(***************************************************************************)
EXTENDS Integers, Sequences, FiniteSets, TLC

VARIABLES
    activeModifiers,            \* part_001:65   list of modifiers of the player
    globalModifiers,            \* part_001:71   list of global run modifiers
    eliteModifiers,             \* part_001:77   Map entityId -> list of modifiers
    modifierStartTimes,         \* part_001:88   Map modifier object -> start time
    globalModifierStartTimes,   \* part_001:89
    derivedStatsCache,          \* part_001:92   << >> is null, <<record>> a cached record
    derivedGlobalCache,         \* part_001:93
    baseStats,                  \* part_001:68
    clock,                      \* performance.now()
    lastOp,                     \* the operation that acted last, with its outcome
    nextEliteId,                \* elite-affixes.js:110
    enemies,                    \* the enemy instances handed to the affix system
    dungeon                     \* the locals and the result of generateDungeon

engineVars == <<activeModifiers, globalModifiers, eliteModifiers, modifierStartTimes,
                globalModifierStartTimes, derivedStatsCache, derivedGlobalCache,
                baseStats, clock>>

\* the name of the last operation comes first: two steps of one operation carry
\* arguments of one shape, so the tuples of two states can always be compared
vars == <<lastOp.op, activeModifiers, globalModifiers, eliteModifiers, modifierStartTimes,
          globalModifierStartTimes, derivedStatsCache, derivedGlobalCache,
          baseStats, clock, lastOp, nextEliteId, enemies, dungeon>>

----------------------------------------------------------------------------
(* Bounds of the model *)

\* longest active list the model registers
MaxMods == 2

\* longest global list the model registers
MaxGlobalMods == 1

\* most keys a start-time map holds
MaxTracked == 2

----------------------------------------------------------------------------
(* Helpers on sequences and maps *)

Range(s) == {s[i] : i \in DOMAIN s}

RECURSIVE SelectSeqBy(_, _)
\* Array.prototype.filter: the elements of s whose index is in keep, in order
SelectSeqBy(s, keep) ==
    IF s = << >> THEN << >>
    ELSE LET n == Len(s)
             front == SelectSeqBy(SubSeq(s, 1, n - 1), keep)
         IN  IF n \in keep THEN Append(front, s[n]) ELSE front

\* Map.prototype.set
MapSet(map, k, v) == [x \in (DOMAIN map) \cup {k} |-> IF x = k THEN v ELSE map[x]]

\* Map.prototype.delete of every key in ks
MapDeleteAll(map, ks) == [x \in (DOMAIN map) \ ks |-> map[x]]

\* new Map()
EmptyMap == [x \in {} |-> 0]

\* x ?? d for a field of an object
FieldOr(obj, field, d) == IF field \in DOMAIN obj THEN obj[field] ELSE d

\* obj with the fields of upd assigned
Assign(obj, upd) ==
    [f \in DOMAIN obj \cup DOMAIN upd |-> IF f \in DOMAIN upd THEN upd[f] ELSE obj[f]]

----------------------------------------------------------------------------
(* The data of modifiers.js *)

BASE_STAT_KEYS == {"maxHP", "moveSpeed", "damage", "fireRate", "projectileSpeed",
                   "critChance", "critMultiplier", "dashCharges", "pickupRadius",
                   "bulletsPerShot"}

createDefaultBaseStats ==
    [k \in BASE_STAT_KEYS |->
        CASE k = "maxHP" -> 3
          [] k = "moveSpeed" -> 4
          [] k = "damage" -> 1
          [] k = "fireRate" -> 150
          [] k = "projectileSpeed" -> 10
          [] k = "critChance" -> 0
          [] k = "critMultiplier" -> 1
          [] k = "dashCharges" -> 0
          [] k = "pickupRadius" -> 0
          [] k = "bulletsPerShot" -> 1]

GLOBAL_KEYS == {"difficultyScale", "enemyHealthMult", "spawnDensityMult",
                "enemyDamageMult", "difficultyModifier"}

GLOBAL_BASE ==
    [k \in GLOBAL_KEYS |-> IF k = "difficultyModifier" THEN 0 ELSE 1]

\* durationMs of a modifier that sets none (durationMs == null)
NoDuration == -1

\* the source argument of removeModifier when it is omitted
NoSource == "undefined"

\* typeof m.value === 'number'
IsNumber(m) == m.vtype = "number"

\* m.id === id && m.source === source: the identity the stacking rules use
SameIdentity(m, n) == m.id = n.id /\ m.source = n.source

----------------------------------------------------------------------------
(* Evaluation: flat modifiers first, then mult modifiers, each in list order *)

\* m.stat == null is false: the modifier names a stat
HasStat(m) == "stat" \in DOMAIN m

\* property names every object literal inherits from Object.prototype
ObjectPrototypeKeys == {"toString", "constructor", "valueOf", "hasOwnProperty"}

\* result[stat] != null: an own key of the record (whose values are never null) or
\* a function inherited from Object.prototype
HasValue(result, stat) == stat \in DOMAIN result \/ stat \in ObjectPrototypeKeys

\* result[stat]: a number for an own key, the inherited function otherwise
Lookup(result, stat) ==
    IF stat \in DOMAIN result THEN result[stat] ELSE [kind |-> "function", name |-> stat]

\* typeof result[stat] === 'number': the base records hold numbers, under names
\* that are not those of Object.prototype
IsNumeric(result, stat) == stat \in DOMAIN result /\ stat \notin ObjectPrototypeKeys

\* result[stat] + v for a number v: a sum of numbers, NaN for NaN, and a string
\* concatenation when result[stat] is a function or a string
JsAdd(result, stat, v) ==
    IF IsNumeric(result, stat) THEN result[stat] + v
    ELSE LET x == Lookup(result, stat)
         IN  IF x.kind = "NaN" THEN x ELSE [kind |-> "string", left |-> x, right |-> v]

\* result[stat] * v for a number v: a product of numbers, NaN for a function, a
\* string that is not numeric, or NaN
JsMul(result, stat, v) ==
    IF IsNumeric(result, stat) THEN result[stat] * v ELSE [kind |-> "NaN"]

\* result[stat] = v: an own key is overwritten, another one is created
SetStat(result, stat, v) ==
    IF stat \in DOMAIN result THEN [result EXCEPT ![stat] = v]
    ELSE Assign(result, [k \in {stat} |-> v])

\* variant: a single loop that applies flat and mult modifiers as they come
ApplyFlatInterleaved(result, m) ==
    IF m.type \in {"flat", "mult"} /\ HasStat(m) /\ IsNumber(m) /\ HasValue(result, m.stat)
    THEN SetStat(result, m.stat,
                 IF m.type = "flat" THEN JsAdd(result, m.stat, m.value)
                 ELSE JsMul(result, m.stat, m.value))
    ELSE result

\* one iteration of the first loop of getDerivedStats (lines 227-230)
ApplyFlat(result, m) ==
    IF m.type = "flat" /\ HasStat(m) /\ IsNumber(m) /\ HasValue(result, m.stat)
    THEN SetStat(result, m.stat, JsAdd(result, m.stat, m.value))
    ELSE result

\* one iteration of the second loop of getDerivedStats (lines 233-236)
ApplyMult(result, m) ==
    IF m.type = "mult" /\ HasStat(m) /\ IsNumber(m) /\ HasValue(result, m.stat)
    THEN SetStat(result, m.stat, JsMul(result, m.stat, m.value))
    ELSE result

RECURSIVE FlatPass(_, _)
FlatPass(result, mods) ==
    IF mods = << >> THEN result
    ELSE FlatPass(ApplyFlat(result, Head(mods)), Tail(mods))

RECURSIVE MultPass(_, _)
MultPass(result, mods) ==
    IF mods = << >> THEN result
    ELSE MultPass(ApplyMult(result, Head(mods)), Tail(mods))

\* the uncached body of getDerivedStats / getDerivedGlobal: copy, flat pass, mult pass
Evaluate(base, mods) == MultPass(FlatPass(base, mods), mods)

\* variant: the loops write to the base record itself
ResultObjectIsBase == "base"

\* lines 224, 252, 177: const result = { ...base } is a new object
ResultObject == "copy"

\* a run of the uncached body on base: the record returned, the base record after
\* the call, and whether the object returned is another object than base
EvalCall(base, mods) ==
    LET r == Evaluate(base, mods)
    IN  [result |-> r,
         base |-> IF ResultObject = "base" THEN r ELSE base,
         fresh |-> ResultObject # "base"]

\* what getDerivedStats() with default arguments returns in the current state
DerivedStatsUncached == Evaluate(baseStats, activeModifiers)

GetDerivedStatsResult ==
    IF derivedStatsCache # << >> THEN derivedStatsCache[1] ELSE DerivedStatsUncached

\* what getDerivedGlobal() returns in the current state
GetDerivedGlobalResult ==
    IF derivedGlobalCache # << >> THEN derivedGlobalCache[1]
    ELSE Evaluate(GLOBAL_BASE, globalModifiers)

\* getEliteDerivedStats(entityId, base)
getEliteDerivedStats(entityId, base) ==
    IF entityId \notin DOMAIN eliteModifiers \/ eliteModifiers[entityId] = << >>
    THEN base
    ELSE Evaluate(base, eliteModifiers[entityId])

----------------------------------------------------------------------------
(* Inputs of the model: the modifiers the callers register *)

Mod(id, source, type, stat, value, durationMs, stackRule) ==
    [id |-> id, source |-> source, type |-> type, stat |-> stat, value |-> value,
     vtype |-> "number", durationMs |-> durationMs, stackRule |-> stackRule]

\* modifiers registered with addModifier; stackRule "" is an unset stackRule
PlayerModifierInputs ==
    { Mod("a", "hero", "flat", "damage", 1, NoDuration, "stack"),
      Mod("a", "hero", "mult", "damage", 2, 1000, "refresh"),
      Mod("a", "hero", "flat", "damage", 2, NoDuration, "unique"),
      Mod("a", "ring", "flat", "damage", 1, 1, "") }

\* modifiers registered with addGlobalModifier
GlobalModifierInputs ==
    { Mod("g", "shrine", "flat", "difficultyModifier", 1, NoDuration, "stack"),
      Mod("g", "shrine", "mult", "enemyDamageMult", 2, 1000, "refresh"),
      Mod("g", "shrine", "flat", "difficultyModifier", 2, NoDuration, "unique") }

\* the arguments of removeModifier
RemoveInputs == { <<"a", NoSource>>, <<"a", "hero">> }

\* the arguments of removeGlobalModifier
RemoveGlobalInputs == { <<"g", NoSource>>, <<"g", "room">> }

\* the partial records handed to syncBaseStatsFromGame
GameStateInputs ==
    { [k \in {"damage", "dashCharges"} |-> 2] }

\* the values performance.now() and the tick's now take, in ms
TimePoints == {0, 999, 1000, 1001}

\* the object literal of a registration at instant now
WithObj(m, now) ==
    Assign(m, [obj |-> IF m.durationMs # NoDuration THEN now ELSE NoDuration])

----------------------------------------------------------------------------
(* Registration, removal, expiry, reset, sync *)

\* lastOp: the operation, its argument, and what it found before it acted
Op(name, arg, pre) == [op |-> name, arg |-> arg, pre |-> pre]

NoArg == << >>

\* the indices of list whose entry has the (id, source) of modifier m
SameIdentityIdx(list, m) == {i \in DOMAIN list : SameIdentity(list[i], m)}

\* variant: the 'unique' rule never returns early
UniqueBlocksNever(list, m) == FALSE

\* addModifier line 105-108: the 'unique' rule finds an existing entry and returns
UniqueBlocks(list, m) ==
    m.stackRule = "unique" /\ SameIdentityIdx(list, m) # {}

\* variant: the 'refresh' rule filters nothing
RefreshFilterKeepsAll(list, m) == list

\* variant: the filter of the 'refresh' rule applied under every stackRule
RefreshFilterAlways(list, m) == SelectSeqBy(list, DOMAIN list \ SameIdentityIdx(list, m))

\* addModifier line 109-111: the 'refresh' rule filters the entries of the same identity
RefreshFilter(list, m) ==
    IF m.stackRule = "refresh"
    THEN SelectSeqBy(list, DOMAIN list \ SameIdentityIdx(list, m))
    ELSE list

\* addModifier line 112: the list after the stacking rule and the append
RegisteredList(list, m) == Append(RefreshFilter(list, m), m)

\* variant: a re-registration inherits the start time tracked for its (id, source)
RegisteredTimesFirst(times, m, now) ==
    LET olds == {o \in DOMAIN times : SameIdentity(o, m)}
    IN  IF m.durationMs = NoDuration THEN times
        ELSE IF olds = {} THEN MapSet(times, m, now)
        ELSE MapSet(times, m, times[CHOOSE o \in olds : \A q \in olds : times[o] <= times[q]])

\* addModifier line 113-115: the start time is tracked when durationMs is set
RegisteredTimes(times, m, now) ==
    IF m.durationMs # NoDuration THEN MapSet(times, m, now) ELSE times

\* variant: invalidateCaches() that leaves the cached record in place
InvalidatedKeepsCache(cache) == cache

\* invalidateCaches(): the value both caches take
Invalidated(cache) == << >>

\* addModifier(modifier)
AddModifier(input) ==
    /\ LET m == WithObj(input, clock) IN
       IF UniqueBlocks(activeModifiers, m)
       THEN /\ lastOp' = Op("addModifier.noop", input,
                              Cardinality(SameIdentityIdx(activeModifiers, m)))
            /\ UNCHANGED <<activeModifiers, modifierStartTimes,
                           derivedStatsCache, derivedGlobalCache>>
       ELSE /\ Len(RegisteredList(activeModifiers, m)) <= MaxMods
            /\ Cardinality(DOMAIN RegisteredTimes(modifierStartTimes, m, clock)) <= MaxTracked
            /\ activeModifiers' = RegisteredList(activeModifiers, m)
            /\ modifierStartTimes' = RegisteredTimes(modifierStartTimes, m, clock)
            /\ derivedStatsCache' = Invalidated(derivedStatsCache)
            /\ derivedGlobalCache' = Invalidated(derivedGlobalCache)
            /\ lastOp' = Op("addModifier", input,
                              Cardinality(SameIdentityIdx(activeModifiers, m)))
    /\ UNCHANGED <<globalModifiers, globalModifierStartTimes, eliteModifiers,
                   baseStats, clock, nextEliteId, enemies, dungeon>>

\* addGlobalModifier(modifier)
AddGlobalModifier(input) ==
    /\ LET m == WithObj(input, clock) IN
       IF UniqueBlocks(globalModifiers, m)
       THEN /\ lastOp' = Op("addGlobalModifier.noop", input,
                              Cardinality(SameIdentityIdx(globalModifiers, m)))
            /\ UNCHANGED <<globalModifiers, globalModifierStartTimes,
                           derivedStatsCache, derivedGlobalCache>>
       ELSE /\ Len(RegisteredList(globalModifiers, m)) <= MaxGlobalMods
            /\ Cardinality(DOMAIN RegisteredTimes(globalModifierStartTimes, m, clock))
                   <= MaxTracked
            /\ globalModifiers' = RegisteredList(globalModifiers, m)
            /\ globalModifierStartTimes' =
                   RegisteredTimes(globalModifierStartTimes, m, clock)
            /\ derivedStatsCache' = Invalidated(derivedStatsCache)
            /\ derivedGlobalCache' = Invalidated(derivedGlobalCache)
            /\ lastOp' = Op("addGlobalModifier", input,
                              Cardinality(SameIdentityIdx(globalModifiers, m)))
    /\ UNCHANGED <<activeModifiers, modifierStartTimes, eliteModifiers,
                   baseStats, clock, nextEliteId, enemies, dungeon>>

\* variant: a match on the id alone
RemoveMatchIgnoresSource(m, id, source) == m.id = id

\* the filter predicate of removeModifier: m.id === id && (source == null || m.source === source)
RemoveMatch(m, id, source) == m.id = id /\ (source = NoSource \/ m.source = source)

RemoveMatchIdx(list, id, source) == {i \in DOMAIN list : RemoveMatch(list[i], id, source)}

\* removeModifier(id, source)
RemoveModifier(id, source) ==
    LET hit == RemoveMatchIdx(activeModifiers, id, source) IN
    /\ activeModifiers' = SelectSeqBy(activeModifiers, DOMAIN activeModifiers \ hit)
    /\ modifierStartTimes' =
           MapDeleteAll(modifierStartTimes, {activeModifiers[i] : i \in hit})
    /\ derivedStatsCache' = Invalidated(derivedStatsCache)
    /\ derivedGlobalCache' = Invalidated(derivedGlobalCache)
    /\ lastOp' = Op("removeModifier", <<id, source>>, Cardinality(hit))
    /\ UNCHANGED <<globalModifiers, globalModifierStartTimes, eliteModifiers,
                   baseStats, clock, nextEliteId, enemies, dungeon>>

\* removeGlobalModifier(id, source)
RemoveGlobalModifier(id, source) ==
    LET hit == RemoveMatchIdx(globalModifiers, id, source) IN
    /\ globalModifiers' = SelectSeqBy(globalModifiers, DOMAIN globalModifiers \ hit)
    /\ globalModifierStartTimes' =
           MapDeleteAll(globalModifierStartTimes, {globalModifiers[i] : i \in hit})
    /\ derivedStatsCache' = Invalidated(derivedStatsCache)
    /\ derivedGlobalCache' = Invalidated(derivedGlobalCache)
    /\ lastOp' = Op("removeGlobalModifier", <<id, source>>, Cardinality(hit))
    /\ UNCHANGED <<activeModifiers, modifierStartTimes, eliteModifiers,
                   baseStats, clock, nextEliteId, enemies, dungeon>>

\* variant: the duration measured from instant 0 instead of the start time
ElapsedSinceZero(now, start, dur) == now >= dur

\* variant: a modifier outlives the instant at which its duration is over
ElapsedStrict(now, start, dur) == now - start > dur

\* processModifierDurations line 293: now - start >= dur
Elapsed(now, start, dur) == now - start >= dur

\* processModifierDurations line 288-296: the indices pushed to toRemove
ExpiredIdx(list, times, now) ==
    {i \in DOMAIN list :
        /\ list[i].durationMs # NoDuration
        /\ list[i] \in DOMAIN times
        /\ Elapsed(now, times[list[i]], list[i].durationMs)}

\* processModifierDurations line 297-300: every entry that is one of the objects goes
WithoutObjs(list, objs) == SelectSeqBy(list, {i \in DOMAIN list : list[i] \notin objs})

\* processModifierDurations(now)
ProcessModifierDurations(now) ==
    LET toRemove == {activeModifiers[i] :
                        i \in ExpiredIdx(activeModifiers, modifierStartTimes, now)}
        globalToRemove == {globalModifiers[i] :
                        i \in ExpiredIdx(globalModifiers, globalModifierStartTimes, now)}
    IN
    /\ activeModifiers' = WithoutObjs(activeModifiers, toRemove)
    /\ modifierStartTimes' = MapDeleteAll(modifierStartTimes, toRemove)
    /\ globalModifiers' = WithoutObjs(globalModifiers, globalToRemove)
    /\ globalModifierStartTimes' = MapDeleteAll(globalModifierStartTimes, globalToRemove)
    /\ IF toRemove # {} \/ globalToRemove # {}
       THEN /\ derivedStatsCache' = Invalidated(derivedStatsCache)
            /\ derivedGlobalCache' = Invalidated(derivedGlobalCache)
       ELSE UNCHANGED <<derivedStatsCache, derivedGlobalCache>>
    /\ lastOp' = Op("processModifierDurations", now, <<toRemove, globalToRemove>>)
    /\ UNCHANGED <<eliteModifiers, baseStats, clock, nextEliteId, enemies, dungeon>>

\* variant: resetModifiers() that leaves the elite table alone
ClearedEliteKeepsTable(table) == table

\* resetModifiers line 330: eliteModifiers.clear()
ClearedElite(table) == EmptyMap

\* variant: resetModifiers() that starts the elite ids over
KeptCounterZero(n) == 0

\* resetModifiers lines 327-335 assign nothing to nextEliteId, the counter of
\* elite-affixes.js line 110
KeptCounter(n) == n

\* resetModifiers()
ResetModifiers ==
    /\ activeModifiers' = << >>
    /\ globalModifiers' = << >>
    /\ eliteModifiers' = ClearedElite(eliteModifiers)
    /\ modifierStartTimes' = EmptyMap
    /\ globalModifierStartTimes' = EmptyMap
    /\ derivedStatsCache' = << >>
    /\ derivedGlobalCache' = << >>
    /\ lastOp' = Op("resetModifiers", NoArg,
                     <<Len(activeModifiers), Len(globalModifiers),
                       Cardinality(DOMAIN eliteModifiers)>>)
    /\ nextEliteId' = KeptCounter(nextEliteId)
    /\ UNCHANGED <<baseStats, clock, enemies, dungeon>>

\* the keys syncBaseStatsFromGame copies (line 342-349)
SyncedKeys == {"maxHP", "moveSpeed", "fireRate", "projectileSpeed", "damage",
               "critChance", "critMultiplier", "bulletsPerShot"}

\* syncBaseStatsFromGame(gameState)
SyncBaseStatsFromGame(gameState) ==
    /\ baseStats' = [k \in DOMAIN baseStats |->
                        IF k \in SyncedKeys /\ k \in DOMAIN gameState
                        THEN gameState[k] ELSE baseStats[k]]
    /\ derivedStatsCache' = Invalidated(derivedStatsCache)
    /\ derivedGlobalCache' = Invalidated(derivedGlobalCache)
    /\ lastOp' = Op("syncBaseStatsFromGame", gameState, 0)
    /\ UNCHANGED <<activeModifiers, globalModifiers, eliteModifiers, modifierStartTimes,
                   globalModifierStartTimes, clock, nextEliteId, enemies, dungeon>>

\* getDerivedStats() with the default arguments: the result is memoized
GetDerivedStats ==
    LET call == EvalCall(baseStats, activeModifiers) IN
    /\ derivedStatsCache' = <<GetDerivedStatsResult>>
    /\ baseStats' = IF derivedStatsCache # << >> THEN baseStats ELSE call.base
    /\ lastOp' = Op("getDerivedStats", NoArg,
                     [cached |-> Len(derivedStatsCache),
                      base |-> baseStats',
                      fresh |-> call.fresh])
    /\ UNCHANGED <<activeModifiers, globalModifiers, eliteModifiers, modifierStartTimes,
                   globalModifierStartTimes, derivedGlobalCache, clock,
                   nextEliteId, enemies, dungeon>>

\* getDerivedGlobal()
GetDerivedGlobal ==
    LET call == EvalCall(GLOBAL_BASE, globalModifiers) IN
    /\ derivedGlobalCache' = <<GetDerivedGlobalResult>>
    /\ lastOp' = Op("getDerivedGlobal", NoArg,
                     [cached |-> Len(derivedGlobalCache),
                      base |-> IF derivedGlobalCache # << >> THEN GLOBAL_BASE
                               ELSE call.base,
                      fresh |-> call.fresh])
    /\ UNCHANGED <<activeModifiers, globalModifiers, eliteModifiers, modifierStartTimes,
                   globalModifierStartTimes, derivedStatsCache, baseStats, clock,
                   nextEliteId, enemies, dungeon>>

\* getDerivedStats(base, modifiers) with a base object of the caller: line 221 and
\* line 239 are false, no cache is read or written
GetDerivedStatsOf(base) ==
    LET call == EvalCall(base, activeModifiers) IN
    /\ lastOp' = Op("getDerivedStats.args", base,
                     [result |-> call.result, base |-> call.base, fresh |-> call.fresh])
    /\ UNCHANGED <<engineVars, nextEliteId, enemies, dungeon>>

\* getEliteDerivedStats(entityId, base) with a base object of the caller
GetEliteDerivedStats(entityId, base) ==
    LET list == IF entityId \in DOMAIN eliteModifiers
                THEN eliteModifiers[entityId] ELSE << >>
        call == EvalCall(base, list)
    IN
    /\ lastOp' = Op("getEliteDerivedStats", <<entityId, base>>,
                     [result |-> call.result, base |-> call.base, fresh |-> call.fresh])
    /\ UNCHANGED <<engineVars, nextEliteId, enemies, dungeon>>

\* time passes between two calls into the engine
Tick ==
    /\ \E t \in TimePoints : t > clock /\ clock' = t
    /\ lastOp' = Op("tick", NoArg, 0)
    /\ UNCHANGED <<activeModifiers, globalModifiers, eliteModifiers, modifierStartTimes,
                   globalModifierStartTimes, derivedStatsCache, derivedGlobalCache,
                   baseStats, nextEliteId, enemies, dungeon>>

----------------------------------------------------------------------------
(* The Elite Modifier Table and the affix system (elite-affixes.js) *)

\* longest list the model registers with a direct addEliteModifier call
MaxEliteMods == 1

\* enemies the model hands to the affix system
MaxEnemies == 2

\* an elite stat modifier as the onAttach hooks build it
EliteMod(name, eliteId, stat, value) ==
    [id |-> <<name, eliteId>>, source |-> "elite", type |-> "flat", stat |-> stat,
     value |-> value, vtype |-> "number"]

\* variant: one list shared by every entity of the table
addEliteModifierShared(table, entityId, modifier) ==
    [id \in (DOMAIN table) \cup {entityId} |->
        Append(IF id \in DOMAIN table THEN table[id] ELSE << >>, modifier)]

\* addEliteModifier(entityId, modifier): the table after the call
addEliteModifier(table, entityId, modifier) ==
    LET list == IF entityId \in DOMAIN table THEN table[entityId] ELSE << >>
    IN  MapSet(table, entityId, Append(list, modifier))

\* variant: removeEliteModifiers(entityId) that deletes nothing
removeEliteModifiersKeepsEntry(table, entityId) == table

\* removeEliteModifiers(entityId): the table after the call
removeEliteModifiers(table, entityId) == MapDeleteAll(table, {entityId})

AFFIX_POOL == {"frenzied", "hardened", "volatile", "vampiric"}

\* the modifiers the onAttach hook of an affix registers, in order
AffixModifiers(affixId, eliteId) ==
    CASE affixId = "frenzied" ->
            << EliteMod("elite_frenzied_speed_", eliteId, "speed", 40),
               EliteMod("elite_frenzied_mult_", eliteId, "speedMult", 25) >>
      [] affixId = "hardened" ->
            << EliteMod("elite_hardened_hp_", eliteId, "maxHealth", 200),
               EliteMod("elite_hardened_dr_", eliteId, "damageReduction", 15) >>
      [] affixId = "volatile" -> << >>
      [] affixId = "vampiric" ->
            << EliteMod("elite_vampiric_ls_", eliteId, "lifesteal", 50) >>

RECURSIVE onAttach(_, _, _)
\* def.onAttach(enemy, eliteId): one addEliteModifier call per modifier
onAttach(table, eliteId, mods) ==
    IF mods = << >> THEN table
    ELSE onAttach(addEliteModifier(table, eliteId, Head(mods)), eliteId, Tail(mods))

\* variant: the baseline max health is taken after the hardened bonus
AttachedEnemyBaselineAfter(enemy, affixId, eliteId) ==
    LET health == IF affixId = "hardened"
                  THEN FieldOr(enemy, "health", 200) + 200
                  ELSE enemy.health
    IN  Assign(enemy,
            [isElite |-> TRUE, affix |-> affixId, eliteId |-> eliteId,
             baseSpeed |-> FieldOr(enemy, "speed", 120),
             baseMaxHealth |-> health,
             baseDamageReduction |-> 0,
             health |-> health, maxHealth |-> health])

\* the enemy object after attachAffix(enemy, affixId) with a known affix
AttachedEnemy(enemy, affixId, eliteId) ==
    LET health == IF affixId = "hardened"
                  THEN FieldOr(enemy, "health", 200) + 200
                  ELSE enemy.health
    IN  Assign(enemy,
            [isElite |-> TRUE, affix |-> affixId, eliteId |-> eliteId,
             baseSpeed |-> FieldOr(enemy, "speed", 120),
             baseMaxHealth |-> FieldOr(enemy, "health", FieldOr(enemy, "maxHealth", 200)),
             baseDamageReduction |-> 0,
             health |-> health, maxHealth |-> health])

\* the enemy classes spawnEnemyWave instantiates: Enemy, Charger, Sniper, Splitter
EnemyInputs ==
    { [kind |-> "Enemy", speed |-> 120, health |-> 200],
      [kind |-> "Charger", health |-> 200],
      [kind |-> "Sniper", health |-> 100] }

\* the affix ids handed to attachAffix: pickRandomAffix() and an id AFFIX_MAP lacks
AffixInputs == AFFIX_POOL \cup {"unknown"}

\* the ids nextEliteId hands out in the model
MaxEliteIds == 2

\* an elite modifier registered by a direct call, for entity 0
EliteModifierInputs == { EliteMod("elite_hardened_hp_", 0, "maxHealth", 200) }

\* addEliteModifier(entityId, modifier) called directly
AddEliteModifier(entityId, modifier) ==
    /\ Len(FieldOr(eliteModifiers, entityId, << >>)) < MaxEliteMods
    /\ eliteModifiers' = addEliteModifier(eliteModifiers, entityId, modifier)
    /\ lastOp' = Op("addEliteModifier", entityId, 0)
    /\ UNCHANGED <<activeModifiers, globalModifiers, modifierStartTimes,
                   globalModifierStartTimes, derivedStatsCache, derivedGlobalCache,
                   baseStats, clock, nextEliteId, enemies, dungeon>>

\* a new enemy instance enters the wave
SpawnEnemy(e) ==
    /\ Len(enemies) < MaxEnemies
    /\ enemies' = Append(enemies, e)
    /\ lastOp' = Op("spawn", Len(enemies) + 1, 0)
    /\ UNCHANGED <<engineVars, nextEliteId, dungeon>>

\* attachAffix(enemy, affixId) on an enemy of the wave that is not elite yet
AttachAffix(i, affixId) ==
    /\ i \in DOMAIN enemies
    /\ "isElite" \notin DOMAIN enemies[i]
    /\ nextEliteId < MaxEliteIds
    /\ IF affixId \notin AFFIX_POOL
       THEN UNCHANGED <<enemies, nextEliteId, eliteModifiers>>
       ELSE /\ nextEliteId' = nextEliteId + 1
            /\ enemies' = [enemies EXCEPT ![i] = AttachedEnemy(@, affixId, nextEliteId)]
            /\ eliteModifiers' =
                   onAttach(eliteModifiers, nextEliteId, AffixModifiers(affixId, nextEliteId))
    /\ lastOp' = Op("attachAffix", <<i, affixId>>, 0)
    /\ UNCHANGED <<activeModifiers, globalModifiers, modifierStartTimes,
                   globalModifierStartTimes, derivedStatsCache, derivedGlobalCache,
                   baseStats, clock, dungeon>>

\* detachAffixModifiers(enemy)
DetachAffixModifiers(i) ==
    /\ i \in DOMAIN enemies
    /\ IF FieldOr(enemies[i], "isElite", FALSE) /\ "eliteId" \in DOMAIN enemies[i]
       THEN eliteModifiers' = removeEliteModifiers(eliteModifiers, enemies[i].eliteId)
       ELSE UNCHANGED eliteModifiers
    /\ lastOp' = Op("detachAffixModifiers", i,
                     IF FieldOr(enemies[i], "eliteId", -1) \in DOMAIN eliteModifiers
                     THEN 1 ELSE 0)
    /\ UNCHANGED <<activeModifiers, globalModifiers, modifierStartTimes,
                   globalModifierStartTimes, derivedStatsCache, derivedGlobalCache,
                   baseStats, clock, nextEliteId, enemies, dungeon>>

----------------------------------------------------------------------------
(* generateDungeon (elite-affixes.js) *)

\* roomCount is 5 + floor(random * 3); the model draws floor(random * 3) from
\* 0 .. MaxRoomDraw
MaxRoomDraw == 1

MinRoomCount == 5

\* the attempts an extra edge gets
MaxAttempts == 20

\* the degree at which an endpoint rejects an extra edge
DegreeCap == 4

\* the most extra edges: extraEdges is 1 + floor(random * 2)
MaxExtraEdges == 2

DOOR_LENGTH == 64

OFF_V == 268

OFF_H == 368

WALLS == <<"left", "right", "top", "bottom">>

\* no generateDungeon call has been made
NoDungeon == [pc |-> "idle"]

RoomCounts == {MinRoomCount + d : d \in 0 .. MaxRoomDraw}

RoomIds(roomCount) == 0 .. roomCount - 1

\* Set.prototype.add. A Set of room ids is modelled by its elements; the order in
\* which it iterates (insertion order) is not kept, see NeighborOrders
SetAdd(set, x) == set \cup {x}

\* variant: the edge is entered at one end only
AddEdgeOneWay(adj, a, b) == [adj EXCEPT ![a] = SetAdd(@, b)]

\* adj[a].add(b); adj[b].add(a)
AddEdge(adj, a, b) == [adj EXCEPT ![a] = SetAdd(@, b), ![b] = SetAdd(adj[b], a)]

\* const roomCount = ...; adj, connected and unconnected as lines 548-551 build them
GenerateStart ==
    /\ dungeon.pc \in {"idle", "done"}
    /\ \E roomCount \in RoomCounts :
          dungeon' = [pc |-> "tree",
                      roomCount |-> roomCount,
                      adj |-> [id \in RoomIds(roomCount) |-> {}],
                      connected |-> {0},
                      unconnected |-> 1 .. roomCount - 1]
    /\ lastOp' = Op("generateDungeon", NoArg, 0)
    /\ UNCHANGED <<engineVars, nextEliteId, enemies>>

\* variant: the room to connect to is drawn from the unconnected rooms
ConnectCandidatesUnconnected(connected, unconnected) == unconnected

\* line 555: toConnect is drawn from the connected rooms
ConnectCandidates(connected, unconnected) == connected

\* one iteration of the while loop of lines 553-560
ConnectRoom ==
    /\ dungeon.pc = "tree"
    /\ dungeon.unconnected # {}
    /\ \E toAdd \in dungeon.unconnected :
       \E toConnect \in ConnectCandidates(dungeon.connected, dungeon.unconnected) :
          dungeon' = [dungeon EXCEPT
                        !.adj = AddEdge(@, toAdd, toConnect),
                        !.connected = @ \cup {toAdd},
                        !.unconnected = @ \ {toAdd}]
    /\ lastOp' = Op("generateDungeon", NoArg, 0)
    /\ UNCHANGED <<engineVars, nextEliteId, enemies>>

\* line 562, reached when the while loop ends: extraEdges is 1 or 2
DrawExtraEdges ==
    /\ dungeon.pc = "tree"
    /\ dungeon.unconnected = {}
    /\ \E extraEdges \in 1 .. MaxExtraEdges :
          dungeon' = [pc |-> "extra",
                      roomCount |-> dungeon.roomCount,
                      adj |-> dungeon.adj,
                      extraEdges |-> extraEdges,
                      e |-> 0]
    /\ lastOp' = Op("generateDungeon", NoArg, 0)
    /\ UNCHANGED <<engineVars, nextEliteId, enemies>>

\* line 568: either endpoint already has DegreeCap neighbours
DegreeFull(adj, a, b) ==
    Cardinality(adj[a]) >= DegreeCap \/ Cardinality(adj[b]) >= DegreeCap

\* lines 567-568: the draws (a, b) of an attempt that `continue`
Rejected(adj, a, b) == b = a \/ b \in adj[a] \/ DegreeFull(adj, a, b)

\* lines 564-573: the values adj can have when the attempts loop ends, entered with
\* the given count of attempts made and added = false
RECURSIVE AttemptOutcomes(_, _, _)
AttemptOutcomes(adj, roomCount, attempts) ==
    IF attempts >= MaxAttempts THEN {adj}
    ELSE LET draws == RoomIds(roomCount) \X RoomIds(roomCount)
             accepted == {d \in draws : ~Rejected(adj, d[1], d[2])}
             rejected == {d \in draws : Rejected(adj, d[1], d[2])}
         IN  {AddEdge(adj, d[1], d[2]) : d \in accepted}
                \cup (IF rejected # {}
                      THEN AttemptOutcomes(adj, roomCount, attempts + 1)
                      ELSE {})

\* one iteration of the for loop of lines 563-574
ExtraEdge ==
    /\ dungeon.pc = "extra"
    /\ dungeon.e < dungeon.extraEdges
    /\ \E adj \in AttemptOutcomes(dungeon.adj, dungeon.roomCount, 0) :
          dungeon' = [dungeon EXCEPT !.adj = adj, !.e = @ + 1]
    /\ lastOp' = Op("generateDungeon", NoArg, 0)
    /\ UNCHANGED <<engineVars, nextEliteId, enemies>>

\* shuffle(arr), lines 535-540, for the draws js[i] of the iteration with index i
RECURSIVE shuffle(_, _, _)
shuffle(arr, i, js) ==
    IF i <= 0 THEN arr
    ELSE LET j == js[i]
         IN  shuffle([arr EXCEPT ![i + 1] = arr[j + 1], ![j + 1] = arr[i + 1]], i - 1, js)

\* the draws of a shuffle of an array of length len: j is in 0 .. i
ShuffleDraws(len) == {js \in [1 .. len - 1 -> 0 .. len - 1] : \A i \in DOMAIN js : js[i] <= i}

\* the values `walls` can have after line 579
ShuffledWalls == {shuffle(WALLS, Len(WALLS) - 1, js) : js \in ShuffleDraws(Len(WALLS))}

\* line 577: the values [...adj[id]] can have. The Set iterates in insertion order,
\* which the model does not keep: every order of the elements is allowed for
NeighborOrders(set) ==
    {order \in [1 .. Cardinality(set) -> set] :
        \A i, j \in DOMAIN order : order[i] = order[j] => i = j}

\* lines 581-586: the doors of a room when [...adj[id]] is neighbors and the
\* shuffled walls are walls
Doors(neighbors, walls) ==
    [i \in DOMAIN neighbors |->
        LET wall == walls[((i - 1) % Len(walls)) + 1]
        IN  [wall |-> wall,
             offset |-> IF wall \in {"left", "right"} THEN OFF_V ELSE OFF_H,
             length |-> DOOR_LENGTH,
             connectsTo |-> neighbors[i]]]

\* the values the doors of a room of the result can have
DoorsOf(room) ==
    {Doors(neighbors, walls) :
        neighbors \in NeighborOrders(room.connectsTo), walls \in ShuffledWalls}

\* lines 577-597: the room pushed for id. The result keeps the rooms the doors of a
\* room lead to; its doors are given by DoorsOf
Room(adj, id) ==
    [id |-> id,
     cleared |-> FALSE,
     hasSpawnedEnemies |-> FALSE,
     isBossRoom |-> FALSE,
     connectsTo |-> adj[id]]

\* variant: the boss room drawn from every room
BossChoicesAny(roomCount) == RoomIds(roomCount)

\* line 600: 1 + floor(random * (roomCount - 1))
BossChoices(roomCount) == 1 .. roomCount - 1

\* lines 576-603, reached when the for loop of the extra edges ends
BuildRooms ==
    /\ dungeon.pc = "extra"
    /\ dungeon.e = dungeon.extraEdges
    /\ \E bossRoomId \in BossChoices(dungeon.roomCount) :
          dungeon' = [pc |-> "done",
                      rooms |-> [id \in RoomIds(dungeon.roomCount) |->
                                    [Room(dungeon.adj, id) EXCEPT
                                        !.isBossRoom = (id = bossRoomId)]],
                      startRoomId |-> 0,
                      bossRoomId |-> bossRoomId]
    /\ lastOp' = Op("generateDungeon", NoArg, 0)
    /\ UNCHANGED <<engineVars, nextEliteId, enemies>>

----------------------------------------------------------------------------
(* The engine as a state machine *)

Init ==
    /\ activeModifiers = << >>
    /\ globalModifiers = << >>
    /\ eliteModifiers = EmptyMap
    /\ modifierStartTimes = EmptyMap
    /\ globalModifierStartTimes = EmptyMap
    /\ derivedStatsCache = << >>
    /\ derivedGlobalCache = << >>
    /\ baseStats = createDefaultBaseStats
    /\ clock = 0
    /\ lastOp = Op("init", NoArg, 0)
    /\ nextEliteId = 0
    /\ enemies = << >>
    /\ dungeon = NoDungeon

Next ==
    \/ \E input \in PlayerModifierInputs : AddModifier(input)
    \/ \E input \in GlobalModifierInputs : AddGlobalModifier(input)
    \/ \E r \in RemoveInputs : RemoveModifier(r[1], r[2])
    \/ \E r \in RemoveGlobalInputs : RemoveGlobalModifier(r[1], r[2])
    \/ ProcessModifierDurations(clock)
    \/ ResetModifiers
    \/ \E g \in GameStateInputs : SyncBaseStatsFromGame(g)
    \/ GetDerivedStats
    \/ GetDerivedGlobal
    \/ Tick

Spec == Init /\ [][Next]_vars

\* the affix system on the enemies of a run
NextElite ==
    \/ \E e \in EnemyInputs : SpawnEnemy(e)
    \/ \E i \in 1 .. MaxEnemies, a \in AffixInputs : AttachAffix(i, a)
    \/ \E i \in 1 .. MaxEnemies : DetachAffixModifiers(i)
    \/ ResetModifiers

SpecElite == Init /\ [][NextElite]_vars

\* a run that registers into every collection of the engine, and its end
NextRun ==
    \/ \E input \in PlayerModifierInputs : AddModifier(input)
    \/ \E input \in GlobalModifierInputs : AddGlobalModifier(input)
    \/ \E g \in GameStateInputs : SyncBaseStatsFromGame(g)
    \/ GetDerivedStats
    \/ GetDerivedGlobal
    \/ \E m \in EliteModifierInputs : AddEliteModifier(0, m)
    \/ ResetModifiers

SpecRun == Init /\ [][NextRun]_vars

NextDungeon ==
    \/ GenerateStart
    \/ ConnectRoom
    \/ DrawExtraEdges
    \/ ExtraEdge
    \/ BuildRooms

SpecDungeon == Init /\ [][NextDungeon]_vars

----------------------------------------------------------------------------
(* Properties of the modifier engine *)

\* the list s reordered by the permutation p of its indices
Permuted(s, p) == [i \in DOMAIN s |-> s[p[i]]]

\* the bijections of the indices of s
IndexPermutations(s) ==
    {p \in [DOMAIN s -> DOMAIN s] : \A i, j \in DOMAIN s : p[i] = p[j] => i = j}

\* base records handed to getDerivedStats explicitly
BaseInputs == {baseStats, createDefaultBaseStats, [k \in {"damage"} |-> 1]}

C2_NoStaleCache ==
    /\ GetDerivedStatsResult = Evaluate(baseStats, activeModifiers)
    /\ GetDerivedGlobalResult = Evaluate(GLOBAL_BASE, globalModifiers)

\* both caches are populated after registrations and a sync changed their inputs
C2_Witness ==
    /\ derivedStatsCache # << >> /\ derivedGlobalCache # << >>
    /\ activeModifiers # << >> /\ globalModifiers # << >>
    /\ baseStats # createDefaultBaseStats
    /\ derivedStatsCache[1] # baseStats
    /\ derivedGlobalCache[1] # GLOBAL_BASE

\* C3: a timed modifier stays in its list after every processModifierDurations(now)
\* with now < start + durationMs and is absent after one with now > start +
\* durationMs (registered at 0 with 1000 ms: there after 999, gone after 1001).
C3_DurationExpiry ==
    [][lastOp'.op = "processModifierDurations" =>
        /\ \A m \in Range(activeModifiers) :
            (m.durationMs # NoDuration /\ m \in DOMAIN modifierStartTimes) =>
                /\ lastOp'.arg < modifierStartTimes[m] + m.durationMs
                       => m \in Range(activeModifiers')
                /\ lastOp'.arg > modifierStartTimes[m] + m.durationMs
                       => m \notin Range(activeModifiers')
        /\ \A m \in Range(globalModifiers) :
            (m.durationMs # NoDuration /\ m \in DOMAIN globalModifierStartTimes) =>
                /\ lastOp'.arg < globalModifierStartTimes[m] + m.durationMs
                       => m \in Range(globalModifiers')
                /\ lastOp'.arg > globalModifierStartTimes[m] + m.durationMs
                       => m \notin Range(globalModifiers')
        /\ GetDerivedStatsResult' = Evaluate(baseStats', activeModifiers')
    ]_vars

\* processModifierDurations(1001) has just removed the 1000 ms modifier registered
\* at instant 0 and kept a timed modifier whose time has not come
C3_Witness ==
    /\ lastOp.op = "processModifierDurations" /\ lastOp.arg = 1001
    /\ \E m \in lastOp.pre[1] : m.durationMs = 1000 /\ m.obj = 0
    /\ \E m \in Range(activeModifiers) :
          /\ m.durationMs # NoDuration /\ m \in DOMAIN modifierStartTimes
          /\ lastOp.arg < modifierStartTimes[m] + m.durationMs

\* the entries of list that do not have the (id, source) of m
OtherIdentity(list, m) == SelectSeqBy(list, DOMAIN list \ SameIdentityIdx(list, m))

\* C4: after a registration with stackRule 'refresh' the list holds exactly one
\* entry with that (id, source), the new one, placed last, and evaluation applies
\* only its value.
C4_RefreshReplaces ==
    /\ (lastOp.op = "addModifier" /\ lastOp.arg.stackRule = "refresh") =>
          LET m == WithObj(lastOp.arg, clock) IN
          /\ activeModifiers # << >>
          /\ activeModifiers[Len(activeModifiers)] = m
          /\ SameIdentityIdx(activeModifiers, m) = {Len(activeModifiers)}
          /\ GetDerivedStatsResult =
                 Evaluate(baseStats, Append(OtherIdentity(activeModifiers, m), m))
    /\ (lastOp.op = "addGlobalModifier" /\ lastOp.arg.stackRule = "refresh") =>
          LET m == WithObj(lastOp.arg, clock) IN
          /\ globalModifiers # << >>
          /\ globalModifiers[Len(globalModifiers)] = m
          /\ SameIdentityIdx(globalModifiers, m) = {Len(globalModifiers)}
          /\ GetDerivedGlobalResult =
                 Evaluate(GLOBAL_BASE, Append(OtherIdentity(globalModifiers, m), m))

\* a refresh registration has just replaced two entries of its identity
C4_Witness ==
    /\ lastOp.op = "addModifier" /\ lastOp.arg.stackRule = "refresh" /\ lastOp.pre = 2
    /\ Len(activeModifiers) = 1
    /\ DerivedStatsUncached["damage"] = 2 * baseStats["damage"]

\* C5: a registration with stackRule 'unique' that finds an entry of the same
\* (id, source) changes nothing: the list, the start times and the caches stay, and
\* evaluation still gives the value of the existing entry.
C5_UniqueNoOp ==
    [][ /\ ( /\ lastOp'.op \in {"addModifier", "addModifier.noop"}
             /\ lastOp'.arg.stackRule = "unique"
             /\ lastOp'.pre > 0 )
           => /\ UNCHANGED <<activeModifiers, modifierStartTimes, globalModifiers,
                             globalModifierStartTimes, derivedStatsCache,
                             derivedGlobalCache>>
              /\ GetDerivedStatsResult' = GetDerivedStatsResult
        /\ ( /\ lastOp'.op \in {"addGlobalModifier", "addGlobalModifier.noop"}
             /\ lastOp'.arg.stackRule = "unique"
             /\ lastOp'.pre > 0 )
           => /\ UNCHANGED <<activeModifiers, modifierStartTimes, globalModifiers,
                             globalModifierStartTimes, derivedStatsCache,
                             derivedGlobalCache>>
              /\ GetDerivedGlobalResult' = GetDerivedGlobalResult
    ]_vars

\* a unique registration was discarded while both caches were populated
C5_Witness ==
    /\ lastOp.op = "addModifier.noop" /\ lastOp.pre > 0
    /\ derivedStatsCache # << >> /\ derivedGlobalCache # << >>
    /\ \E m \in Range(activeModifiers) :
          SameIdentity(m, lastOp.arg) /\ m.value # lastOp.arg.value

RECURSIVE SumValues(_)
SumValues(list) == IF list = << >> THEN 0 ELSE Head(list).value + SumValues(Tail(list))

\* C6: a registration with stackRule 'stack' or with none appends the modifier and
\* keeps every earlier entry, also those of the same (id, source), in order; all of
\* them contribute (two flat +1 give +2).
C6_StackKeepsBoth ==
    [][ /\ (lastOp'.op = "addModifier" /\ lastOp'.arg.stackRule \in {"stack", ""}) =>
            /\ activeModifiers' = Append(activeModifiers, WithObj(lastOp'.arg, clock))
            /\ (\A m \in Range(activeModifiers') : m.type = "flat" /\ m.stat = "damage")
                  => GetDerivedStatsResult'["damage"]
                         = baseStats["damage"] + SumValues(activeModifiers')
        /\ (lastOp'.op = "addGlobalModifier" /\ lastOp'.arg.stackRule \in {"stack", ""}) =>
            globalModifiers' = Append(globalModifiers, WithObj(lastOp'.arg, clock))
    ]_vars

\* two flat +1 modifiers of one (id, source) are both in the list and give +2
C6_Witness ==
    /\ lastOp.op = "addModifier" /\ lastOp.arg.stackRule \in {"stack", ""}
    /\ lastOp.pre = 1
    /\ Len(activeModifiers) = 2
    /\ SameIdentity(activeModifiers[1], activeModifiers[2])
    /\ activeModifiers[1].value = 1 /\ activeModifiers[2].value = 1
    /\ GetDerivedStatsResult["damage"] = baseStats["damage"] + 2

\* elite ids and base records handed to getEliteDerivedStats
EliteProbeIds == 0 .. MaxEliteIds

HardenedProbe == [k \in {"maxHealth", "damageReduction"} |-> IF k = "maxHealth" THEN 200 ELSE 0]

\* C7: after resetModifiers() both lists, the elite table and both start-time maps
\* are empty and both caches are null, getDerivedStats(freshBase) is freshBase,
\* getEliteDerivedStats(id, base) is base, and baseStats is what it was.
C7_ResetComplete ==
    [][lastOp'.op = "resetModifiers" =>
        /\ activeModifiers' = << >> /\ globalModifiers' = << >>
        /\ DOMAIN eliteModifiers' = {}
        /\ DOMAIN modifierStartTimes' = {} /\ DOMAIN globalModifierStartTimes' = {}
        /\ derivedStatsCache' = << >> /\ derivedGlobalCache' = << >>
        /\ Evaluate(createDefaultBaseStats, activeModifiers') = createDefaultBaseStats
        /\ GetDerivedStatsResult' = baseStats
        /\ \A id \in EliteProbeIds :
              getEliteDerivedStats(id, HardenedProbe)' = HardenedProbe
        /\ baseStats' = baseStats
    ]_vars

\* resetModifiers() has just cleared a run with entries in every collection and
\* synced base stats
C7_Witness ==
    /\ lastOp.op = "resetModifiers"
    /\ lastOp.pre[1] > 0 /\ lastOp.pre[2] > 0 /\ lastOp.pre[3] > 0
    /\ baseStats # createDefaultBaseStats
    /\ DOMAIN eliteModifiers = {}

\* C8: attachAffix(enemy, 'hardened') makes getEliteDerivedStats(enemy.eliteId,
\* {maxHealth: 2, damageReduction: 0}) yield maxHealth 4 and damageReduction 0.15;
\* after detachAffixModifiers(enemy), also a repeated one, the table has no entry
\* for the id and the same call returns the base.
C8_EliteLifecycle ==
    /\ (lastOp.op = "attachAffix" /\ lastOp.arg[2] = "hardened") =>
          LET enemy == enemies[lastOp.arg[1]] IN
          /\ enemy.eliteId \in DOMAIN eliteModifiers
          /\ getEliteDerivedStats(enemy.eliteId, HardenedProbe)["maxHealth"] = 400
          /\ getEliteDerivedStats(enemy.eliteId, HardenedProbe)["damageReduction"] = 15
    /\ (lastOp.op = "detachAffixModifiers" /\ "eliteId" \in DOMAIN enemies[lastOp.arg]) =>
          LET enemy == enemies[lastOp.arg] IN
          /\ enemy.eliteId \notin DOMAIN eliteModifiers
          /\ getEliteDerivedStats(enemy.eliteId, HardenedProbe) = HardenedProbe

\* a hardened elite has just been detached a second time
C8_Witness ==
    /\ lastOp.op = "detachAffixModifiers" /\ lastOp.pre = 0
    /\ "affix" \in DOMAIN enemies[lastOp.arg]
    /\ enemies[lastOp.arg].affix = "hardened"
    /\ nextEliteId = 1

----------------------------------------------------------------------------
(* Properties of generateDungeon *)

\* the rooms a breadth-first traversal visits, following the connectsTo of the doors
RECURSIVE Bfs(_, _, _)
Bfs(rooms, visited, frontier) ==
    IF frontier = {} THEN visited
    ELSE LET next == UNION {rooms[id].connectsTo : id \in frontier} \ visited
         IN  Bfs(rooms, visited \cup next, next)

\* C9: in every generateDungeon() result a breadth-first traversal from startRoomId
\* over the connectsTo of the doors visits every room id 0 .. roomCount - 1, with
\* roomCount in 5..7, and bossRoomId differs from startRoomId.
C9_AllRoomsReachable ==
    dungeon.pc = "done" =>
        LET roomCount == Cardinality(DOMAIN dungeon.rooms) IN
        /\ roomCount \in 5 .. 7
        /\ DOMAIN dungeon.rooms = 0 .. roomCount - 1
        /\ Bfs(dungeon.rooms, {dungeon.startRoomId}, {dungeon.startRoomId})
               = 0 .. roomCount - 1
        /\ dungeon.bossRoomId \in DOMAIN dungeon.rooms
        /\ dungeon.bossRoomId # dungeon.startRoomId

\* a result of six rooms with both extra edges added (seven edges), whose last room
\* is the boss room
C9_Witness ==
    /\ dungeon.pc = "done"
    /\ DOMAIN dungeon.rooms = 0 .. 5
    /\ Cardinality({e \in (0 .. 5) \X (0 .. 5) :
                       e[1] < e[2] /\ e[2] \in dungeon.rooms[e[1]].connectsTo}) = 7
    /\ dungeon.bossRoomId = 5
    /\ dungeon.rooms[5].isBossRoom

\* the doors of a list of doors lie on pairwise different walls
DistinctWalls(doors) ==
    \A i, j \in DOMAIN doors : doors[i].wall = doors[j].wall => i = j

\* C10: in every generateDungeon() result each room has at most 4 neighbours (at
\* most 4 doors) and no two doors of one room are assigned the same wall.
C10_DegreeCapAndWalls ==
    dungeon.pc = "done" =>
        \A id \in DOMAIN dungeon.rooms :
            /\ Cardinality(dungeon.rooms[id].connectsTo) <= 4
            /\ \A doors \in DoorsOf(dungeon.rooms[id]) :
                  Len(doors) <= 4 /\ DistinctWalls(doors)

----------------------------------------------------------------------------
(* Removal from lists of any content *)

\* longest list the removal specification starts from
MaxListLen == 3

\* the lists of at most n elements of S
ListsUpTo(S, n) == UNION {[1 .. k -> S] : k \in 0 .. n}

\* modifiers of two ids and two sources, as addModifier keeps them
RemoveListInputs ==
    { WithObj(Mod("a", "hero", "flat", "damage", 1, NoDuration, "stack"), 0),
      WithObj(Mod("a", "ring", "flat", "damage", 2, NoDuration, "stack"), 0),
      WithObj(Mod("b", "hero", "mult", "damage", 2, NoDuration, "stack"), 0) }

RemoveGlobalListInputs ==
    { WithObj(Mod("g", "shrine", "flat", "difficultyModifier", 1, NoDuration, "stack"), 0),
      WithObj(Mod("g", "room", "mult", "enemyDamageMult", 2, NoDuration, "stack"), 0) }

\* the arguments of the removal calls: source omitted or given, an id nothing has
RemoveCallInputs == {"a", "c"} \X {NoSource, "hero"}

RemoveGlobalCallInputs == {"g", "c"} \X {NoSource, "room"}

\* the engine after any registrations of untimed modifiers
InitLists ==
    /\ activeModifiers \in ListsUpTo(RemoveListInputs, MaxListLen)
    /\ globalModifiers \in ListsUpTo(RemoveGlobalListInputs, MaxListLen - 1)
    /\ eliteModifiers = EmptyMap
    /\ modifierStartTimes = EmptyMap
    /\ globalModifierStartTimes = EmptyMap
    /\ derivedStatsCache = << >>
    /\ derivedGlobalCache = << >>
    /\ baseStats = createDefaultBaseStats
    /\ clock = 0
    /\ lastOp = Op("init", NoArg, 0)
    /\ nextEliteId = 0
    /\ enemies = << >>
    /\ dungeon = NoDungeon

NextRemove ==
    \/ \E r \in RemoveCallInputs : RemoveModifier(r[1], r[2])
    \/ \E r \in RemoveGlobalCallInputs : RemoveGlobalModifier(r[1], r[2])

SpecRemove == InitLists /\ [][NextRemove]_vars

----------------------------------------------------------------------------
(* Evaluation of lists that hold malformed modifiers *)

\* longest active list the evaluation specification starts from
MaxEvalLen == 2

\* a hook modifier: it has an event and a handler and neither stat nor value
Hook(id, source, event, handler) ==
    [id |-> id, source |-> source, type |-> "hook", event |-> event,
     handler |-> handler, durationMs |-> NoDuration, stackRule |-> ""]

\* the modifiers handed to addModifier: two stat modifiers, one whose stat no base
\* record has, one whose value is the string '5', a hook, and one whose stat is a
\* property name of Object.prototype
EvalModifierInputs ==
    { Mod("a", "hero", "flat", "damage", 1, NoDuration, ""),
      Mod("b", "hero", "mult", "damage", 2, NoDuration, ""),
      Mod("u", "ring", "flat", "luck", 5, NoDuration, ""),
      Assign(Mod("s", "ring", "flat", "damage", 5, NoDuration, ""),
             [vtype |-> "string"]),
      Hook("h", "ring", "onPlayerHit", "noop"),
      Mod("p", "ring", "flat", "toString", 1, NoDuration, "") }

EvalGlobalInputs ==
    { Mod("g", "shrine", "flat", "difficultyModifier", 1, NoDuration, ""),
      Mod("u", "shrine", "flat", "luck", 5, NoDuration, "") }

\* the base objects callers hand to getDerivedStats and getEliteDerivedStats
BaseArgInputs == { [k \in {"damage"} |-> 1],
                   [k \in {"maxHealth", "damageReduction"} |->
                       IF k = "maxHealth" THEN 200 ELSE 0] }

\* the engine after any registrations of these modifiers
InitEval ==
    /\ activeModifiers \in ListsUpTo({WithObj(m, 0) : m \in EvalModifierInputs}, MaxEvalLen)
    /\ globalModifiers \in ListsUpTo({WithObj(m, 0) : m \in EvalGlobalInputs}, 1)
    /\ eliteModifiers \in {EmptyMap} \cup
            {addEliteModifier(EmptyMap, 0, m) : m \in EliteModifierInputs}
    /\ modifierStartTimes = EmptyMap
    /\ globalModifierStartTimes = EmptyMap
    /\ derivedStatsCache = << >>
    /\ derivedGlobalCache = << >>
    /\ baseStats = createDefaultBaseStats
    /\ clock = 0
    /\ lastOp = Op("init", NoArg, 0)
    /\ nextEliteId = 0
    /\ enemies = << >>
    /\ dungeon = NoDungeon

NextEval ==
    \/ \E input \in EvalModifierInputs : AddModifier(input)
    \/ GetDerivedStats
    \/ GetDerivedGlobal
    \/ \E base \in BaseArgInputs : GetDerivedStatsOf(base)
    \/ \E id \in {0, 1}, base \in BaseArgInputs : GetEliteDerivedStats(id, base)

SpecEval == InitEval /\ [][NextEval]_vars

----------------------------------------------------------------------------
(* Obstacles and teleport pads of a room *)

\* Math.random() * max is drawn from this many evenly spaced values of [0, max)
RandomSteps == 2
\* and from this value, which lies beside the margin of a door
EdgeOffset == 15
\* count of generateObstacles is drawn from 2 .. 2 + MaxCountDraw
MaxCountDraw == 3

HUD_HEIGHT == 52
ROOM_WIDTH == 800
ROOM_HEIGHT == 600
WALL_THICKNESS == 20
ENTRANCE_INSET == 20

CENTER_MARGIN == 70
ENTRANCE_MARGIN == 50
DOOR_MARGIN == 30
STACK_GAP_MIN == 45
OVERLAP_THRESHOLD == 15
MAX_OBSTACLE_ATTEMPTS == 30
WALL_THICKNESS_MIN == 8
WALL_THICKNESS_MAX == 14
WALL_LENGTH_MIN == 55
WALL_LENGTH_MAX == 110
GAP == 20

PAD_SIZE == 36
PAD_CENTER_MARGIN == 60
PAD_DOOR_MARGIN == 25
PAD_ENTRANCE_MARGIN == 40
PAD_GAP == 15
PADS_REQUIRED == 2
MAX_PAD_ATTEMPTS == 40

\* the room every room of the dungeon is drawn in
room ==
    [x |-> 0, y |-> HUD_HEIGHT, width |-> ROOM_WIDTH,
     height |-> ROOM_HEIGHT - HUD_HEIGHT, wallThickness |-> WALL_THICKNESS]

Rect(x, y, w, h) == [x |-> x, y |-> y, w |-> w, h |-> h]

Max2(a, b) == IF a >= b THEN a ELSE b
Min2(a, b) == IF a <= b THEN a ELSE b

getDoorRect(r, door) ==
    LET t == r.wallThickness
        o == door.offset
        L == door.length
    IN  CASE door.wall = "left" -> Rect(r.x, r.y + o, t, L)
          [] door.wall = "right" -> Rect(r.x + r.width - t, r.y + o, t, L)
          [] door.wall = "top" -> Rect(r.x + o, r.y, L, t)
          [] door.wall = "bottom" -> Rect(r.x + o, r.y + r.height - t, L, t)
          [] OTHER -> Rect(r.x, r.y, t, L)

getEntrancePosition(r, door, inset) ==
    LET d == getDoorRect(r, door)
        cx == d.x + d.w \div 2
        cy == d.y + d.h \div 2
        t == r.wallThickness
    IN  CASE door.wall = "left" -> [x |-> r.x + t + inset, y |-> cy]
          [] door.wall = "right" -> [x |-> r.x + r.width - t - inset, y |-> cy]
          [] door.wall = "top" -> [x |-> cx, y |-> r.y + t + inset]
          [] door.wall = "bottom" -> [x |-> cx, y |-> r.y + r.height - t - inset]
          [] OTHER -> [x |-> cx, y |-> cy]

\* the floor inside the walls
Inner(r) ==
    LET t == r.wallThickness
    IN  Rect(r.x + t, r.y + t, r.width - 2 * t, r.height - 2 * t)

CenterRect(r, margin) ==
    Rect(r.x + r.width \div 2 - margin \div 2, r.y + r.height \div 2 - margin \div 2,
         margin, margin)

DoorMarginRect(r, door, margin) ==
    LET dr == getDoorRect(r, door)
    IN  Rect(dr.x - margin, dr.y - margin, dr.w + 2 * margin, dr.h + 2 * margin)

EntranceMarginRect(r, door, margin) ==
    LET entrance == getEntrancePosition(r, door, ENTRANCE_INSET)
    IN  Rect(entrance.x - margin \div 2, entrance.y - margin \div 2, margin, margin)

\* variant: the entrance zones are not excluded
ExcludeRectsWithoutEntrances(r, doors, centerMargin, doorMargin, entranceMargin) ==
    {CenterRect(r, centerMargin)}
        \cup {DoorMarginRect(r, doors[i], doorMargin) : i \in DOMAIN doors}

\* excludeRects of both generators: the centre zone, then for every door its margin
\* and the zone around its entrance position
ExcludeRects(r, doors, centerMargin, doorMargin, entranceMargin) ==
    {CenterRect(r, centerMargin)}
        \cup {DoorMarginRect(r, doors[i], doorMargin) : i \in DOMAIN doors}
        \cup {EntranceMarginRect(r, doors[i], entranceMargin) : i \in DOMAIN doors}

rectsOverlap(a, b) ==
    /\ ~(a.x + a.w <= b.x \/ b.x + b.w <= a.x)
    /\ ~(a.y + a.h <= b.y \/ b.y + b.h <= a.y)

\* wouldStack for one existing obstacle o
StacksWith(rect, o) ==
    LET xOverlap == Max2(0, Min2(rect.x + rect.w, o.x + o.w) - Max2(rect.x, o.x))
        yOverlap == Max2(0, Min2(rect.y + rect.h, o.y + o.h) - Max2(rect.y, o.y))
        vertGap == IF rect.y + rect.h <= o.y THEN o.y - (rect.y + rect.h)
                   ELSE IF o.y + o.h <= rect.y THEN rect.y - (o.y + o.h)
                   ELSE 0
        horizGap == IF rect.x + rect.w <= o.x THEN o.x - (rect.x + rect.w)
                    ELSE IF o.x + o.w <= rect.x THEN rect.x - (o.x + o.w)
                    ELSE 0
    IN  \/ rectsOverlap(rect, o)
        \/ xOverlap > OVERLAP_THRESHOLD /\ vertGap > 0 /\ vertGap < STACK_GAP_MIN
        \/ yOverlap > OVERLAP_THRESHOLD /\ horizGap > 0 /\ horizGap < STACK_GAP_MIN

wouldStack(rect, existingObstacles) ==
    \E i \in DOMAIN existingObstacles : StacksWith(rect, existingObstacles[i])

\* the values of Math.random() * max the model draws
RandomTimes(max) ==
    {(k * max) \div RandomSteps : k \in 0 .. RandomSteps - 1}
        \cup {d \in {EdgeOffset} : d < max}

\* lines 411-415: the sizes <<w, h>> one attempt draws: the longest and thinnest
\* horizontal wall and the shortest and thickest vertical wall
ObstacleSizes ==
    {<<WALL_LENGTH_MAX, WALL_THICKNESS_MIN>>, <<WALL_THICKNESS_MAX, WALL_LENGTH_MIN>>}

\* lines 417-423: the rectangles one attempt can draw; a size that does not fit
\* the floor draws none
ObstacleDraws(r) ==
    LET inner == Inner(r) IN
    UNION {
        LET maxX == inner.w - 2 * GAP - size[1]
            maxY == inner.h - 2 * GAP - size[2]
        IN  IF maxX <= 0 \/ maxY <= 0 THEN {}
            ELSE {Rect(inner.x + GAP + dx, inner.y + GAP + dy, size[1], size[2]) :
                     dx \in RandomTimes(maxX), dy \in RandomTimes(maxY)}
        : size \in ObstacleSizes}

\* line 419: some size makes the attempt loop break
ObstacleBreaks(r) ==
    \E size \in ObstacleSizes :
        \/ Inner(r).w - 2 * GAP - size[1] <= 0
        \/ Inner(r).h - 2 * GAP - size[2] <= 0

HitsExclude(rect, excludeRects) == \E e \in excludeRects : rectsOverlap(rect, e)

NotPlaced == [placed |-> FALSE]

\* the attempt loop of one placement with attemptsLeft attempts to go: the accepted
\* rectangle, or NotPlaced when the loop breaks or every attempt was rejected
RECURSIVE PlaceAttempts(_, _, _, _)
PlaceAttempts(attemptsLeft, accepted, rejected, breaks) ==
    IF attemptsLeft = 0 THEN {NotPlaced}
    ELSE {[placed |-> TRUE, rect |-> c] : c \in accepted}
            \cup (IF breaks THEN {NotPlaced} ELSE {})
            \cup (IF rejected # {}
                  THEN PlaceAttempts(attemptsLeft - 1, accepted, rejected, breaks)
                  ELSE {})

\* lines 408-435 from obstacle i on: the lists the loop can end with, with anySkipped
RECURSIVE PlaceObstacles(_, _, _, _, _)
PlaceObstacles(i, count, obstacles, anySkipped, excludeRects) ==
    IF i >= count THEN {[obstacles |-> obstacles, anySkipped |-> anySkipped]}
    ELSE LET draws == ObstacleDraws(room)
             accepted == {c \in draws : ~HitsExclude(c, excludeRects)
                                          /\ ~wouldStack(c, obstacles)}
             outcomes == PlaceAttempts(MAX_OBSTACLE_ATTEMPTS, accepted,
                                       draws \ accepted, ObstacleBreaks(room))
         IN  UNION {
                 IF o.placed
                 THEN PlaceObstacles(i + 1, count, Append(obstacles, o.rect),
                                     anySkipped, excludeRects)
                 ELSE PlaceObstacles(i + 1, count, obstacles, TRUE, excludeRects)
                 : o \in outcomes}

\* line 394: 2 + floor(random * 4), up to the bound of the model
ObstacleCounts == 2 .. Min2(5, 2 + MaxCountDraw)

\* the lists generateObstacles(room, doors) can return
generateObstacles(r, doors) ==
    LET excludeRects == ExcludeRects(r, doors, CENTER_MARGIN, DOOR_MARGIN, ENTRANCE_MARGIN)
        ends == UNION {PlaceObstacles(0, count, << >>, FALSE, excludeRects) :
                          count \in ObstacleCounts}
    IN  {IF e.anySkipped /\ Len(e.obstacles) >= 2
         THEN SubSeq(e.obstacles, 1, Len(e.obstacles) - 1)
         ELSE e.obstacles : e \in ends}

\* lines 504-510: the rectangles one attempt for a pad can draw
PadDraws(r) ==
    LET inner == Inner(r)
        maxX == inner.w - 2 * PAD_GAP - PAD_SIZE
        maxY == inner.h - 2 * PAD_GAP - PAD_SIZE
    IN  IF maxX <= 0 \/ maxY <= 0 THEN {}
        ELSE {Rect(inner.x + PAD_GAP + dx, inner.y + PAD_GAP + dy, PAD_SIZE, PAD_SIZE) :
                 dx \in RandomTimes(maxX), dy \in RandomTimes(maxY)}

PadBreaks(r) ==
    \/ Inner(r).w - 2 * PAD_GAP - PAD_SIZE <= 0
    \/ Inner(r).h - 2 * PAD_GAP - PAD_SIZE <= 0

\* variant: a failed placement keeps the pads placed so far
PadFailureKeepsPads(pads) == pads

\* line 521: if (!placed) return []
PadFailure(pads) == << >>

\* lines 501-524 from pad i on: the lists generateTeleportPads can return
RECURSIVE PlacePads(_, _, _, _)
PlacePads(i, pads, obstacles, excludeRects) ==
    IF i >= PADS_REQUIRED THEN {pads}
    ELSE LET draws == PadDraws(room)
             accepted == {c \in draws :
                             /\ ~HitsExclude(c, excludeRects)
                             /\ ~\E k \in DOMAIN obstacles : rectsOverlap(c, obstacles[k])
                             /\ ~\E k \in DOMAIN pads : rectsOverlap(c, pads[k])}
             outcomes == PlaceAttempts(MAX_PAD_ATTEMPTS, accepted, draws \ accepted,
                                       PadBreaks(room))
         IN  UNION {
                 IF o.placed
                 THEN PlacePads(i + 1, Append(pads, o.rect), obstacles, excludeRects)
                 ELSE {PadFailure(pads)}
                 : o \in outcomes}

generateTeleportPads(r, doors, obstacles) ==
    PlacePads(0, << >>, obstacles,
              ExcludeRects(r, doors, PAD_CENTER_MARGIN, PAD_DOOR_MARGIN,
                           PAD_ENTRANCE_MARGIN))

\* the orders of the walls the door lists of the model are built from
LayoutWallOrders ==
    {<<"left", "right", "top", "bottom">>, <<"top", "left", "bottom", "right">>}

\* the doors of a room with one, two or four neighbours, as generateDungeon builds them
DoorListInputs ==
    {Doors(neighbors, walls) :
        neighbors \in {<<1>>, <<1, 2>>, <<1, 2, 3, 4>>},
        walls \in LayoutWallOrders \cap ShuffledWalls}

\* startNewRun, for a room that is not the boss room: r.obstacles = generateObstacles(room, r.doors)
GenerateObstacles ==
    /\ dungeon.pc = "doors"
    /\ \E obstacles \in generateObstacles(room, dungeon.doors) :
          dungeon' = [pc |-> "obstacles", doors |-> dungeon.doors,
                      obstacles |-> obstacles]
    /\ lastOp' = Op("generateObstacles", NoArg, 0)
    /\ UNCHANGED <<engineVars, nextEliteId, enemies>>

\* r.teleportPads = generateTeleportPads(room, r.doors, r.obstacles)
GenerateTeleportPads ==
    /\ dungeon.pc = "obstacles"
    /\ \E pads \in generateTeleportPads(room, dungeon.doors, dungeon.obstacles) :
          dungeon' = [pc |-> "pads", doors |-> dungeon.doors,
                      obstacles |-> dungeon.obstacles, teleportPads |-> pads]
    /\ lastOp' = Op("generateTeleportPads", NoArg, 0)
    /\ UNCHANGED <<engineVars, nextEliteId, enemies>>

\* a room of a generated dungeon before its obstacles are placed
InitLayout ==
    /\ activeModifiers = << >>
    /\ globalModifiers = << >>
    /\ eliteModifiers = EmptyMap
    /\ modifierStartTimes = EmptyMap
    /\ globalModifierStartTimes = EmptyMap
    /\ derivedStatsCache = << >>
    /\ derivedGlobalCache = << >>
    /\ baseStats = createDefaultBaseStats
    /\ clock = 0
    /\ lastOp = Op("init", NoArg, 0)
    /\ nextEliteId = 0
    /\ enemies = << >>
    /\ \E doors \in DoorListInputs : dungeon = [pc |-> "doors", doors |-> doors]

NextLayout ==
    \/ GenerateObstacles
    \/ GenerateTeleportPads

SpecLayout == InitLayout /\ [][NextLayout]_vars

----------------------------------------------------------------------------
(* emitGameEvent and hook modifiers *)

\* longest active list the hook specification starts from
MaxHookLen == 3

\* typeof m.handler === 'function'. A handler is named by what it does: 'noop'
\* returns (placeholderHook), 'removeSelf', 'removeH1' and 'registerHook' call into
\* the engine (see HandlerEffect),
\* 'notAFunction' is a value that cannot be called
IsFunction(handler) == handler # "notAFunction"

\* line 277: the entries whose handler emitGameEvent calls
HookMatches(m, eventName) ==
    m.type = "hook" /\ m.event = eventName /\ IsFunction(m.handler)

\* the hook a 'registerHook' handler hands to addModifier: a hook of the event that
\* is being emitted, under the 'unique' rule
RegisteredHook ==
    [id |-> "h5", source |-> "ring", type |-> "hook", event |-> "onPlayerHit",
     handler |-> "noop", durationMs |-> NoDuration, stackRule |-> "unique",
     obj |-> NoDuration]

\* the active list after the handler of m has run: 'removeSelf' calls
\* removeModifier(m.id, m.source), 'removeH1' calls removeModifier('h1'), and
\* 'registerHook' calls addModifier(RegisteredHook)
HandlerEffect(m, list) ==
    IF m.handler = "removeSelf"
    THEN SelectSeqBy(list, DOMAIN list \ RemoveMatchIdx(list, m.id, m.source))
    ELSE IF m.handler = "removeH1"
    THEN SelectSeqBy(list, DOMAIN list \ RemoveMatchIdx(list, "h1", NoSource))
    ELSE IF m.handler = "registerHook" /\ ~UniqueBlocks(list, RegisteredHook)
    THEN RegisteredList(list, RegisteredHook)
    ELSE list

\* variant: the loop reads the variable activeModifiers again in every iteration
IteratedListLive(snapshot, current) == current

\* line 276: for (const m of activeModifiers) iterates the array the variable held
\* when the loop began; the operations a handler calls assign new arrays
IteratedList(snapshot, current) == snapshot

\* lines 276-279 from index i on: the active list and the log of the handler calls
\* when the loop ends
RECURSIVE EmitLoop(_, _, _, _, _, _)
EmitLoop(i, snapshot, list, log, eventName, payload) ==
    LET arr == IteratedList(snapshot, list) IN
    IF i > Len(arr) THEN [list |-> list, log |-> log]
    ELSE IF ~HookMatches(arr[i], eventName)
         THEN EmitLoop(i + 1, snapshot, list, log, eventName, payload)
         ELSE EmitLoop(i + 1, snapshot, HandlerEffect(arr[i], list),
                       Append(log, <<arr[i], payload>>), eventName, payload)

\* emitGameEvent(eventName, payload)
EmitGameEvent(eventName, payload) ==
    LET end == EmitLoop(1, activeModifiers, activeModifiers, << >>, eventName, payload)
        removed == Range(activeModifiers) \ Range(end.list)
    IN
    /\ activeModifiers' = end.list
    /\ modifierStartTimes' = MapDeleteAll(modifierStartTimes, removed)
    /\ IF \/ \E i \in DOMAIN end.log : end.log[i][1].handler \in {"removeSelf", "removeH1"}
          \/ RegisteredHook \in Range(end.list) \ Range(activeModifiers)
       THEN /\ derivedStatsCache' = Invalidated(derivedStatsCache)
            /\ derivedGlobalCache' = Invalidated(derivedGlobalCache)
       ELSE UNCHANGED <<derivedStatsCache, derivedGlobalCache>>
    /\ lastOp' = Op("emitGameEvent", <<eventName, payload>>, end.log)
    /\ UNCHANGED <<globalModifiers, globalModifierStartTimes, eliteModifiers,
                   baseStats, clock, nextEliteId, enemies, dungeon>>

\* hooks of two events, one that removes itself, one without a callable handler, one
\* that registers a hook, one that removes another hook, and a stat modifier, as
\* addModifier keeps them
HookListInputs ==
    { WithObj(Hook("h1", "ring", "onPlayerHit", "noop"), 0),
      WithObj(Hook("h2", "ring", "onPlayerHit", "removeSelf"), 0),
      WithObj(Hook("h3", "amulet", "onEnemyKilled", "noop"), 0),
      WithObj(Hook("h4", "amulet", "onPlayerHit", "notAFunction"), 0),
      WithObj(Hook("h6", "ring", "onPlayerHit", "registerHook"), 0),
      WithObj(Hook("h7", "ring", "onPlayerHit", "removeH1"), 0),
      WithObj(Mod("a", "hero", "flat", "damage", 1, NoDuration, ""), 0) }

EventInputs == {"onPlayerHit", "onEnemyKilled", "onTeleport"}

PayloadInputs == {"payload"}

\* the engine after any registrations of these modifiers
InitHooks ==
    /\ activeModifiers \in ListsUpTo(HookListInputs, MaxHookLen)
    /\ globalModifiers = << >>
    /\ eliteModifiers = EmptyMap
    /\ modifierStartTimes = EmptyMap
    /\ globalModifierStartTimes = EmptyMap
    /\ derivedStatsCache \in {<< >>, <<Evaluate(createDefaultBaseStats, activeModifiers)>>}
    /\ derivedGlobalCache = << >>
    /\ baseStats = createDefaultBaseStats
    /\ clock = 0
    /\ lastOp = Op("init", NoArg, 0)
    /\ nextEliteId = 0
    /\ enemies = << >>
    /\ dungeon = NoDungeon

NextHooks ==
    \E eventName \in EventInputs, payload \in PayloadInputs :
        EmitGameEvent(eventName, payload)

SpecHooks == InitHooks /\ [][NextHooks]_vars

----------------------------------------------------------------------------
(* The run: startNewRun and the playing tick of loop (meta-progression.js) *)

\* The model keeps what the engine and the affix system see of a run: the game
\* state, two rooms that are not the boss room (the start room and the room behind
\* its door) with their enemy lists, and the values the tick applies. Positions,
\* drawing, sound, the boss and the reward overlays are left out; whether a bullet
\* overlaps an enemy, whether the player dies and whether the player stands in the
\* door are inputs of the tick. The active list of a run holds no hook (GEAR_CATALOG
\* and the hero definitions register none), so the emitGameEvent calls of the tick
\* call no handler.

\* bullets that hit something in one tick
MaxBullets == 2
\* the game spawns 4 to 14 enemies per wave; the model scales a wave down to
\* 1 .. MaxWave enemies
MaxWave == 2
\* longest active list a registration during a run may produce
MaxRunMods == 2

FIRE_COOLDOWN_MIN_MS == 70
MOVE_SPEED_MAX == 8
BULLET_SPEED_MAX == 20
BULLETS_PER_SHOT_MAX == 4

\* META_HERO_DEFINITIONS.vanguard and the default of getMetaHeroDefinition
getMetaHeroDefinition(heroId) ==
    IF heroId = "vanguard"
    THEN [id |-> "vanguard",
          baseStats |-> [maxHP |-> 4, moveSpeed |-> 4, damage |-> 1, fireRate |-> 150,
                         projectileSpeed |-> 10, bulletsPerShot |-> 1],
          intrinsicModifiers |->
              << [id |-> "vanguard_hp", source |-> "hero", type |-> "flat",
                  stat |-> "maxHP", value |-> 1] >>,
          \* per level, in halves: maxHP 0.5
          levelScaling |-> << <<"maxHP", 1>>, <<"moveSpeed", 0>>, <<"damage", 0>>,
                              <<"fireRate", 0>>, <<"projectileSpeed", 0>> >>]
    ELSE [id |-> "null"]

\* GEAR_CATALOG[gearId].modifiers of the gear the model equips
GearModifiers(gearId) ==
    CASE gearId = "rust_pistol" -> << [stat |-> "fireRate", type |-> "flat", value |-> -15] >>
      [] gearId = "leather_coat" -> << [stat |-> "maxHP", type |-> "flat", value |-> 1] >>
      [] gearId = "charm_greed" -> << >>
      [] OTHER -> << >>

\* the selected hero, its level and its equipped gear in slot order
LoadoutInputs ==
    { [heroId |-> "vanguard", level |-> 0, equipped |-> << >>],
      [heroId |-> "vanguard", level |-> 2, equipped |-> <<"rust_pistol", "leather_coat">>] }

\* addModifier(modifier) as a function of the list, for a modifier without duration
addModifier(list, m) ==
    IF UniqueBlocks(list, m) THEN list ELSE RegisteredList(list, m)

RECURSIVE addModifiers(_, _)
addModifiers(list, ms) ==
    IF ms = << >> THEN list ELSE addModifiers(addModifier(list, Head(ms)), Tail(ms))

\* a modifier object literal without durationMs and stackRule
Literal(id, source, type, stat, value) ==
    WithObj(Mod(id, source, type, stat, value, NoDuration, ""), 0)

\* `hero_level_${heroId}_${stat}` for the hero and the stats of the model
HeroLevelId(heroId, stat) ==
    CASE heroId = "vanguard" /\ stat = "maxHP" -> "hero_level_vanguard_maxHP"
      [] heroId = "vanguard" /\ stat = "moveSpeed" -> "hero_level_vanguard_moveSpeed"
      [] OTHER -> "hero_level_"

\* `${gearId}_${mod.stat}` for the gear of the model
GearModifierId(gearId, stat) ==
    CASE gearId = "rust_pistol" /\ stat = "fireRate" -> "rust_pistol_fireRate"
      [] gearId = "leather_coat" /\ stat = "maxHP" -> "leather_coat_maxHP"
      [] OTHER -> "gear_"

\* registerRunLoadoutFromMeta lines 1994-2001: the base stats of the hero
HeroBaseStats(base, def) ==
    [k \in DOMAIN base |->
        IF k \in {"maxHP", "moveSpeed", "damage", "fireRate", "projectileSpeed",
                  "bulletsPerShot"} /\ k \in DOMAIN def.baseStats
        THEN def.baseStats[k] ELSE base[k]]

\* lines 2002-2004
IntrinsicModifiers(def) ==
    [i \in DOMAIN def.intrinsicModifiers |->
        LET m == def.intrinsicModifiers[i]
        IN  Literal(m.id, "hero", m.type, m.stat, m.value)]

\* lines 2005-2010: one modifier per levelScaling entry that is not 0
LevelModifiers(def, level) ==
    IF level > 0
    THEN LET scaled == SelectSeq(def.levelScaling, LAMBDA entry : entry[2] # 0)
         IN  [i \in DOMAIN scaled |->
                 Literal(HeroLevelId(def.id, scaled[i][1]), "hero", "flat",
                         scaled[i][1], (scaled[i][2] * level) \div 2)]
    ELSE << >>

RECURSIVE EquippedModifiers(_)
\* lines 2011-2021
EquippedModifiers(equipped) ==
    IF equipped = << >> THEN << >>
    ELSE LET gearId == Head(equipped)
             mods == GearModifiers(gearId)
         IN  [i \in DOMAIN mods |->
                 Literal(GearModifierId(gearId, mods[i].stat), "gear", mods[i].type,
                         mods[i].stat, mods[i].value)]
             \o EquippedModifiers(Tail(equipped))

\* registerRunLoadoutFromMeta(): the base stats and the active list after it
registerRunLoadoutFromMeta(base, list, loadout) ==
    LET def == getMetaHeroDefinition(loadout.heroId) IN
    IF def.id = "null" THEN [baseStats |-> base, activeModifiers |-> list]
    ELSE [baseStats |-> HeroBaseStats(createDefaultBaseStats, def),
          activeModifiers |->
              addModifiers(list, IntrinsicModifiers(def)
                                   \o LevelModifiers(def, loadout.level)
                                   \o EquippedModifiers(loadout.equipped))]

\* the values the tick and startNewRun apply (lines 3814-3821, 2057-2064)
Applied(derived, derivedGlobal) ==
    [speed |-> Min2(MOVE_SPEED_MAX, Max2(1, derived["moveSpeed"])),
     maxHp |-> Max2(1, derived["maxHP"]),
     fireCooldownMs |-> Max2(FIRE_COOLDOWN_MIN_MS, derived["fireRate"]),
     bulletSpeed |-> Min2(BULLET_SPEED_MAX, derived["projectileSpeed"]),
     bulletsPerShot |-> Min2(BULLETS_PER_SHOT_MAX, Max2(1, derived["bulletsPerShot"])),
     enemyDamageMultiplier |-> derivedGlobal["enemyDamageMult"],
     difficultyModifier |-> derivedGlobal["difficultyModifier"]]

\* the affix pickRandomAffix draws in the model
WaveAffixInputs == {"vampiric"}

\* the waves spawnEnemyWave builds in the model, before the elite selection
WaveInputs ==
    { << [kind |-> "Enemy", speed |-> 120, health |-> 200],
         [kind |-> "Sniper", health |-> 100] >> }

\* the enemy objects of a wave of room roomId are told apart by their place in it
WaveOf(wave, roomId) ==
    [i \in DOMAIN wave |-> Assign(wave[i], [room |-> roomId, slot |-> i])]

\* spawnEnemyWave lines 1950-1957: no elite, or attachAffix on one enemy of the wave.
\* The results: the wave, the elite table and nextEliteId
spawnEnemyWave(table, nextId, roomId) ==
    UNION {
        LET w == WaveOf(wave, roomId) IN
        {[wave |-> w, table |-> table, nextEliteId |-> nextId]}
        \cup {[wave |-> [w EXCEPT ![eliteIndex] = AttachedEnemy(@, affixId, nextId)],
               table |-> onAttach(table, nextId, AffixModifiers(affixId, nextId)),
               nextEliteId |-> nextId + 1] :
                 eliteIndex \in {i \in DOMAIN w : nextId < MaxEliteIds},
                 affixId \in WaveAffixInputs}
        : wave \in {x \in WaveInputs : Len(x) <= MaxWave}}

\* a room of the run
RunRoom(enemyList, spawned) ==
    [enemies |-> enemyList, cleared |-> FALSE, hasSpawnedEnemies |-> spawned]

\* variant: the loadout is registered on top of the list of the run before
RegistrationListKept(previous) == previous

\* startNewRun line 2052: resetModifiers() leaves the empty list to register on
RegistrationList(previous) == << >>

\* startNewRun(), called from the main menu and from the death screen
StartNewRun(loadout) ==
    /\ dungeon.pc = "idle" \/ (dungeon.pc = "run" /\ dungeon.gameState \in {"MENU", "DEAD"})
    /\ LET run == registerRunLoadoutFromMeta(createDefaultBaseStats,
                                             RegistrationList(activeModifiers), loadout)
           derived == Evaluate(run.baseStats, run.activeModifiers)
           derivedGlobal == Evaluate(GLOBAL_BASE, << >>)
       IN
       /\ baseStats' = run.baseStats
       /\ activeModifiers' = run.activeModifiers
       /\ globalModifiers' = << >>
       /\ modifierStartTimes' = EmptyMap
       /\ globalModifierStartTimes' = EmptyMap
       /\ derivedStatsCache' = <<derived>>
       /\ derivedGlobalCache' = <<derivedGlobal>>
       /\ \E spawn \in spawnEnemyWave(ClearedElite(eliteModifiers), nextEliteId, 0) :
             /\ eliteModifiers' = spawn.table
             /\ nextEliteId' = spawn.nextEliteId
             /\ dungeon' = [pc |-> "run",
                            gameState |-> "COUNTDOWN",
                            rooms |-> [id \in {0, 1} |->
                                          IF id = 0 THEN RunRoom(spawn.wave, TRUE)
                                          ELSE RunRoom(<< >>, FALSE)],
                            currentRoomId |-> 0,
                            applied |-> Applied(derived, derivedGlobal)]
    /\ lastOp' = Op("startNewRun", loadout,
                     [eliteKeys |-> DOMAIN eliteModifiers,
                      activeModifiers |-> activeModifiers])
    /\ UNCHANGED <<clock, enemies>>

\* loop in state COUNTDOWN when the countdown is over
CountdownEnds ==
    /\ dungeon.pc = "run" /\ dungeon.gameState = "COUNTDOWN"
    /\ dungeon' = [dungeon EXCEPT !.gameState = "PLAYING"]
    /\ lastOp' = Op("countdown", NoArg, 0)
    /\ UNCHANGED <<engineVars, nextEliteId, enemies>>

\* handlePauseSelect: return to the main menu; the run stays as it is
ReturnToMenu ==
    /\ dungeon.pc = "run" /\ dungeon.gameState = "PLAYING"
    /\ dungeon' = [dungeon EXCEPT !.gameState = "MENU"]
    /\ lastOp' = Op("returnToMenu", NoArg, 0)
    /\ UNCHANGED <<engineVars, nextEliteId, enemies>>

\* variant: a floor that lets every value through
FlooredNever(floor, v) == v

\* Math.max(floor, v) of applyEliteStats lines 164, 166 and 177
Floored(floor, v) == Max2(floor, v)

\* variant: the evaluation starts from the values the call before left
EliteBaseCurrent(enemy) ==
    [speed |-> FieldOr(enemy, "speed", 120),
     maxHealth |-> FieldOr(enemy, "maxHealth", 200),
     damageReduction |-> FieldOr(enemy, "damageReduction", 0),
     speedMult |-> FieldOr(enemy, "eliteSpeedMult", 100),
     lifesteal |-> FieldOr(enemy, "lifesteal", 0)]

\* applyEliteStats lines 155-161: the base record, from the baselines of the attach
EliteBase(enemy) ==
    [speed |-> FieldOr(enemy, "baseSpeed", 120),
     maxHealth |-> FieldOr(enemy, "baseMaxHealth", 200),
     damageReduction |-> FieldOr(enemy, "baseDamageReduction", 0),
     speedMult |-> 100,
     lifesteal |-> 0]

\* variant: the bonus also at exactly half health
LowHpOrHalf(health, maxHealth) == 2 * health <= maxHealth

\* applyEliteStats lines 173-174: hpRatio = health / maxHealth; hpRatio < 0.5
LowHp(health, maxHealth) == 2 * health < maxHealth

\* applyEliteStats lines 162-178: the fields the call assigns
EliteStats(enemy) ==
    LET derived == getEliteDerivedStats(enemy.eliteId, EliteBase(enemy))
        maxHealth == Floored(100, derived.maxHealth)
        speed == derived.speed
                    + (IF enemy.affix = "frenzied" /\ maxHealth > 0
                          /\ LowHp(enemy.health, maxHealth)
                       THEN 50 ELSE 0)
    IN  [maxHealth |-> maxHealth,
         damageReduction |-> Max2(0, Min2(50, derived.damageReduction)),
         eliteSpeedMult |-> Floored(50, derived.speedMult),
         lifesteal |-> derived.lifesteal]
        @@ (IF "speed" \in DOMAIN enemy
            THEN [speed |-> Floored(50, speed)] ELSE EmptyMap)

\* variant: the call also stores the speed it derived as the baseline
applyEliteStatsRebasing(enemy) ==
    IF ~FieldOr(enemy, "isElite", FALSE) \/ "eliteId" \notin DOMAIN enemy THEN enemy
    ELSE Assign(enemy, EliteStats(enemy)
                       @@ [baseSpeed |-> FieldOr(EliteStats(enemy), "speed", 120),
                           baseMaxHealth |-> EliteStats(enemy).maxHealth])

\* applyEliteStats(enemy)
applyEliteStats(enemy) ==
    IF ~FieldOr(enemy, "isElite", FALSE) \/ "eliteId" \notin DOMAIN enemy THEN enemy
    ELSE Assign(enemy, EliteStats(enemy))

\* variant: a dying enemy is never detached
DetachedNever(table, enemy) == table

\* detachAffixModifiers(enemy): the elite table after the call
Detached(table, enemy) ==
    IF FieldOr(enemy, "isElite", FALSE) /\ "eliteId" \in DOMAIN enemy
    THEN removeEliteModifiers(table, enemy.eliteId)
    ELSE table

\* the sets of enemies of the room, by index, that one bullet overlaps: the first
\* enemy of the list, or the first two
BulletInputs == ListsUpTo({{1}, {1, 2}}, MaxBullets)

\* loop lines 3667-3703 from bullet b on. s holds the enemy list, the indices in
\* hitEnemies, the elite table and the enemies handed to detachAffixModifiers
RECURSIVE BulletLoop(_, _, _)
BulletLoop(bullets, b, s) ==
    IF b > Len(bullets) THEN s
    ELSE LET overlapped == {i \in DOMAIN s.enemies : i \in bullets[b] /\ i \notin s.hitEnemies}
         IN  IF overlapped = {} THEN BulletLoop(bullets, b + 1, s)
             ELSE LET i == CHOOSE x \in overlapped : \A y \in overlapped : x <= y
                      e == s.enemies[i]
                      effectiveDmg == Max2(25, 100 - FieldOr(e, "damageReduction", 0))
                      health == e.health - effectiveDmg
                      hurt == [e EXCEPT !.health = health]
                  IN  IF health <= 0
                      THEN BulletLoop(bullets, b + 1,
                              [enemies |-> [s.enemies EXCEPT ![i] = hurt],
                               hitEnemies |-> s.hitEnemies \cup {i},
                               table |-> Detached(s.table, hurt),
                               detached |-> Append(s.detached, hurt)])
                      ELSE BulletLoop(bullets, b + 1,
                              [s EXCEPT !.enemies = [s.enemies EXCEPT ![i] = hurt]])

\* the engine after processModifierDurations(now)
ExpiredEngine(now) ==
    LET toRemove == {activeModifiers[i] :
                        i \in ExpiredIdx(activeModifiers, modifierStartTimes, now)}
        globalToRemove == {globalModifiers[i] :
                        i \in ExpiredIdx(globalModifiers, globalModifierStartTimes, now)}
        removed == toRemove # {} \/ globalToRemove # {}
    IN  [activeModifiers |-> WithoutObjs(activeModifiers, toRemove),
         modifierStartTimes |-> MapDeleteAll(modifierStartTimes, toRemove),
         globalModifiers |-> WithoutObjs(globalModifiers, globalToRemove),
         globalModifierStartTimes |-> MapDeleteAll(globalModifierStartTimes, globalToRemove),
         derivedStatsCache |-> IF removed THEN Invalidated(derivedStatsCache)
                               ELSE derivedStatsCache,
         derivedGlobalCache |-> IF removed THEN Invalidated(derivedGlobalCache)
                                ELSE derivedGlobalCache]

\* the engine as it is, in the shape of ExpiredEngine
CurrentEngine ==
    [activeModifiers |-> activeModifiers,
     modifierStartTimes |-> modifierStartTimes,
     globalModifiers |-> globalModifiers,
     globalModifierStartTimes |-> globalModifierStartTimes,
     derivedStatsCache |-> derivedStatsCache,
     derivedGlobalCache |-> derivedGlobalCache]

\* variant: the derived stats are read before the durations are processed
EngineReadBeforeExpiry(now) == CurrentEngine

\* loop lines 3811-3813: getDerivedStats and getDerivedGlobal read the engine that
\* processModifierDurations(performance.now()) left
EngineRead(now) == ExpiredEngine(now)

\* the other room of the model
OtherRoom(id) == 1 - id

\* the playing tick of loop (lines 3652-4253)
PlayingTick(bullets, playerDies, inDoor) ==
    /\ dungeon.pc = "run" /\ dungeon.gameState = "PLAYING"
    /\ LET cur == dungeon.currentRoomId
           r == dungeon.rooms[cur]
           \* line 3660
           withStats == [i \in DOMAIN r.enemies |-> applyEliteStats(r.enemies[i])]
           \* lines 3667-3703
           shot == BulletLoop(bullets, 1,
                              [enemies |-> withStats, hitEnemies |-> {},
                               table |-> eliteModifiers, detached |-> << >>])
           \* lines 3733-3734
           cleared == r.cleared \/ Len(shot.enemies) = 0
           \* lines 3811-3821
           expired == ExpiredEngine(clock)
           read == EngineRead(clock)
           derived == IF read.derivedStatsCache # << >> THEN read.derivedStatsCache[1]
                      ELSE Evaluate(baseStats, read.activeModifiers)
           derivedGlobal == IF read.derivedGlobalCache # << >>
                            THEN read.derivedGlobalCache[1]
                            ELSE Evaluate(GLOBAL_BASE, read.globalModifiers)
           \* lines 3861-3874
           didTransition == inDoor /\ cleared
           currentRoomId == IF didTransition THEN OtherRoom(cur) ELSE cur
           dead == {shot.enemies[i] : i \in shot.hitEnemies}
       IN
       /\ Len(bullets) > 0 => Len(r.enemies) > 0
       /\ playerDies => Len(r.enemies) > 0
       /\ inDoor => r.cleared \/ Len(r.enemies) = 0
       /\ activeModifiers' = expired.activeModifiers
       /\ modifierStartTimes' = expired.modifierStartTimes
       /\ globalModifiers' = expired.globalModifiers
       /\ globalModifierStartTimes' = expired.globalModifierStartTimes
       /\ derivedStatsCache' = <<derived>>
       /\ derivedGlobalCache' = <<derivedGlobal>>
       /\ \E spawn \in (IF didTransition /\ ~dungeon.rooms[currentRoomId].hasSpawnedEnemies
                        THEN spawnEnemyWave(shot.table, nextEliteId, currentRoomId)
                        ELSE {[wave |-> dungeon.rooms[currentRoomId].enemies,
                               table |-> shot.table, nextEliteId |-> nextEliteId]}) :
             LET entered == [id \in DOMAIN dungeon.rooms |->
                                IF id = cur
                                THEN [enemies |-> shot.enemies,
                                      cleared |-> cleared,
                                      hasSpawnedEnemies |-> r.hasSpawnedEnemies]
                                ELSE dungeon.rooms[id]]
                 spawned == [id \in DOMAIN entered |->
                                IF didTransition /\ id = currentRoomId
                                THEN [enemies |-> spawn.wave,
                                      cleared |-> entered[id].cleared,
                                      hasSpawnedEnemies |-> TRUE]
                                ELSE entered[id]]
                 \* line 4158
                 rn == spawned[currentRoomId]
                 kept == SelectSeq(rn.enemies, LAMBDA x : x \notin dead)
             IN
             /\ eliteModifiers' = spawn.table
             /\ nextEliteId' = spawn.nextEliteId
             /\ dungeon' = [pc |-> "run",
                            gameState |-> IF playerDies THEN "DEAD" ELSE dungeon.gameState,
                            rooms |-> [id \in DOMAIN spawned |->
                                          IF id = currentRoomId
                                          THEN [enemies |-> kept,
                                                cleared |-> spawned[id].cleared,
                                                hasSpawnedEnemies |->
                                                    spawned[id].hasSpawnedEnemies]
                                          ELSE spawned[id]],
                            currentRoomId |-> currentRoomId,
                            applied |-> Applied(derived, derivedGlobal)]
       /\ lastOp' = Op("loop", clock,
                        [detached |-> shot.detached,
                         dead |-> dead,
                         toRemove |-> Range(activeModifiers) \ Range(expired.activeModifiers),
                         globalToRemove |->
                             Range(globalModifiers) \ Range(expired.globalModifiers),
                         derived |-> derived,
                         derivedGlobal |-> derivedGlobal])
    /\ UNCHANGED <<baseStats, clock, enemies>>

\* modifiers a caller registers during a run. The pools of the game set no
\* durationMs; the engine takes one from any caller
RunModifierInputs ==
    { Mod("upgrade_speed_1", "upgrade", "flat", "moveSpeed", 1, NoDuration, ""),
      Mod("haste", "buff", "flat", "moveSpeed", 2, 1000, "") }

RunGlobalModifierInputs ==
    { Mod("shrine_diff_1", "shrine", "flat", "difficultyModifier", 1, 1000, "") }

\* an upgrade, a shrine deal or another caller registers a modifier during the run
RunAddModifier(input) ==
    /\ dungeon.pc = "run" /\ dungeon.gameState = "PLAYING"
    /\ Len(activeModifiers) < MaxRunMods
    /\ AddModifier(input)

RunAddGlobalModifier(input) ==
    /\ dungeon.pc = "run" /\ dungeon.gameState = "PLAYING"
    /\ AddGlobalModifier(input)

\* the instants of the ticks of a run: the registration instant, and the last
\* instant before and the first instant at which a duration of 1000 has elapsed
RunTimePoints == {0, 999, 1000}

\* time passes between two frames of the run
RunTimePasses == Tick /\ clock' \in RunTimePoints

NextGame ==
    \/ \E loadout \in LoadoutInputs : StartNewRun(loadout)
    \/ CountdownEnds
    \/ ReturnToMenu
    \/ \E bullets \in BulletInputs, playerDies \in BOOLEAN, inDoor \in BOOLEAN :
          PlayingTick(bullets, playerDies, inDoor)
    \/ \E input \in RunModifierInputs : RunAddModifier(input)
    \/ \E input \in RunGlobalModifierInputs : RunAddGlobalModifier(input)
    \/ RunTimePasses

SpecGame == Init /\ [][NextGame]_vars

----------------------------------------------------------------------------
(* Properties of sync, removal, evaluation and hooks *)

\* C13: syncBaseStatsFromGame(partial) sets baseStats[k] to partial[k] for every
\* base-stat key k present in partial (dashCharges and pickupRadius included),
\* leaves every other key unchanged and never changes the active or global list.
C13_SyncCopiesEveryKey ==
    [][lastOp'.op = "syncBaseStatsFromGame" =>
        /\ \A k \in BASE_STAT_KEYS :
              IF k \in DOMAIN lastOp'.arg
              THEN baseStats'[k] = lastOp'.arg[k]
              ELSE baseStats'[k] = baseStats[k]
        /\ UNCHANGED <<activeModifiers, globalModifiers>>
    ]_vars

\* C14: removeModifier(id, source) removes every entry whose id matches and, when
\* source is given, whose source matches too (with source omitted every entry of
\* that id); the other entries stay in their order; a call that matches nothing
\* leaves the list unchanged. removeGlobalModifier does the same on the global list.
C14_RemoveExact ==
    [][ /\ lastOp'.op = "removeModifier" =>
            LET id == lastOp'.arg[1]
                source == lastOp'.arg[2]
                Stays(m) == ~(m.id = id /\ (source = NoSource \/ m.source = source))
            IN  /\ activeModifiers' = SelectSeq(activeModifiers, Stays)
                /\ (\A m \in Range(activeModifiers) : Stays(m))
                      => activeModifiers' = activeModifiers
                /\ globalModifiers' = globalModifiers
        /\ lastOp'.op = "removeGlobalModifier" =>
            LET id == lastOp'.arg[1]
                source == lastOp'.arg[2]
                Stays(m) == ~(m.id = id /\ (source = NoSource \/ m.source = source))
            IN  /\ globalModifiers' = SelectSeq(globalModifiers, Stays)
                /\ (\A m \in Range(globalModifiers) : Stays(m))
                      => globalModifiers' = globalModifiers
                /\ activeModifiers' = activeModifiers
    ]_vars

\* removeModifier('a', 'hero') has removed one entry from between two others, which
\* stay in their order, one of them with the same id and another source
C14_Witness ==
    /\ lastOp.op = "removeModifier" /\ lastOp.arg = <<"a", "hero">> /\ lastOp.pre = 1
    /\ Len(activeModifiers) = 2
    /\ activeModifiers[1].id = "a" /\ activeModifiers[1].source = "ring"
    /\ activeModifiers[2].id = "b"

\* C15: getDerivedStats, getDerivedGlobal and getEliteDerivedStats never modify the
\* base record they evaluate (the argument, baseStats or GLOBAL_BASE), the active or
\* global list, or the elite table; the record returned is another object than the base.
C15_EvaluationIsPure ==
    [][lastOp'.op \in {"getDerivedStats", "getDerivedGlobal", "getDerivedStats.args",
                       "getEliteDerivedStats"} =>
        /\ UNCHANGED <<baseStats, activeModifiers, globalModifiers, eliteModifiers>>
        /\ lastOp'.pre.fresh
        /\ lastOp'.op = "getDerivedStats" => lastOp'.pre.base = baseStats
        /\ lastOp'.op = "getDerivedGlobal" => lastOp'.pre.base = GLOBAL_BASE
        /\ lastOp'.op = "getDerivedStats.args" => lastOp'.pre.base = lastOp'.arg
        /\ lastOp'.op = "getEliteDerivedStats" => lastOp'.pre.base = lastOp'.arg[2]
    ]_vars

\* getEliteDerivedStats has returned a record that differs from the base it was
\* handed, and the base is what it was
C15_Witness ==
    /\ lastOp.op = "getEliteDerivedStats"
    /\ lastOp.pre.result # lastOp.arg[2]
    /\ lastOp.pre.base = lastOp.arg[2]
    /\ lastOp.pre.result["maxHealth"] = 400
    /\ activeModifiers # << >> /\ globalModifiers # << >>

\* the modifiers the claim calls skipped: a hook, a stat that is no key of base, a
\* value that is not a number
Skipped(m, base) ==
    \/ m.type = "hook"
    \/ ~HasStat(m)
    \/ m.vtype # "number"
    \/ m.stat \notin DOMAIN base

Without(list, i) == SelectSeqBy(list, DOMAIN list \ {i})

\* C16: a modifier whose stat is not a key of the base record, whose value is not a
\* number, or whose type is 'hook' contributes nothing to an evaluation (the derived
\* record equals the one of the list without it), and its registration succeeds.
C16_MalformedSkipped ==
    [][ /\ \A i \in DOMAIN activeModifiers' :
              Skipped(activeModifiers'[i], baseStats') =>
                  Evaluate(baseStats', activeModifiers')
                      = Evaluate(baseStats', Without(activeModifiers', i))
        /\ \A i \in DOMAIN globalModifiers' :
              Skipped(globalModifiers'[i], GLOBAL_BASE) =>
                  Evaluate(GLOBAL_BASE, globalModifiers')
                      = Evaluate(GLOBAL_BASE, Without(globalModifiers', i))
        /\ lastOp'.op = "addModifier" =>
              activeModifiers' = Append(activeModifiers, WithObj(lastOp'.arg, clock))
    ]_vars

\* C17: emitGameEvent(eventName, payload) calls, in list order and exactly once
\* each, the handler of every hook of the active list whose event equals eventName,
\* passing payload; it calls no handler of a hook of another event and none for a
\* stat modifier.
C17_HandlersCalledInOrder ==
    [][lastOp'.op = "emitGameEvent" =>
        LET eventName == lastOp'.arg[1]
            payload == lastOp'.arg[2]
            Called(m) == m.type = "hook" /\ m.event = eventName
                            /\ m.handler # "notAFunction"
            expected == SelectSeq(activeModifiers, Called)
        IN  /\ Len(lastOp'.pre) = Len(expected)
            /\ \A i \in DOMAIN expected : lastOp'.pre[i] = <<expected[i], payload>>
    ]_vars

\* emitGameEvent('onPlayerHit') has called a hook that removed itself and then the
\* hook behind it, and passed over a hook of another event
C17_Witness ==
    /\ lastOp.op = "emitGameEvent" /\ lastOp.arg[1] = "onPlayerHit"
    /\ Len(lastOp.pre) = 2
    /\ lastOp.pre[1][1].handler = "removeSelf"
    /\ lastOp.pre[2][1].id = "h1"
    /\ Len(activeModifiers) = 2
    /\ activeModifiers[1].id = "h3" /\ activeModifiers[2].id = "h1"

\* the rectangles of the layout that a claim about placed rectangles speaks of
Placed(kind) ==
    IF kind = "obstacle" THEN
        IF "obstacles" \in DOMAIN dungeon THEN Range(dungeon.obstacles) ELSE {}
    ELSE IF "teleportPads" \in DOMAIN dungeon THEN Range(dungeon.teleportPads) ELSE {}

\* C11: every rectangle returned by generateObstacles and by generateTeleportPads
\* overlaps neither the centre exclusion rectangle nor the margin rectangle of any
\* door nor the entrance rectangle of any door, each computed with the margins of
\* the call that returned it.
C11_PlacedOutsideExclusion ==
    dungeon.pc \in {"obstacles", "pads"} =>
        /\ \A o \in Placed("obstacle") :
              /\ ~rectsOverlap(o, CenterRect(room, CENTER_MARGIN))
              /\ \A i \in DOMAIN dungeon.doors :
                    /\ ~rectsOverlap(o, DoorMarginRect(room, dungeon.doors[i], DOOR_MARGIN))
                    /\ ~rectsOverlap(o, EntranceMarginRect(room, dungeon.doors[i],
                                                           ENTRANCE_MARGIN))
        /\ \A p \in Placed("pad") :
              /\ ~rectsOverlap(p, CenterRect(room, PAD_CENTER_MARGIN))
              /\ \A i \in DOMAIN dungeon.doors :
                    /\ ~rectsOverlap(p, DoorMarginRect(room, dungeon.doors[i],
                                                       PAD_DOOR_MARGIN))
                    /\ ~rectsOverlap(p, EntranceMarginRect(room, dungeon.doors[i],
                                                           PAD_ENTRANCE_MARGIN))

\* a room with two doors has obstacles and two pads, although some rectangle the
\* generators draw lies in an entrance zone only
C11_Witness ==
    /\ dungeon.pc = "pads"
    /\ Len(dungeon.doors) = 2
    /\ Len(dungeon.obstacles) >= 2
    /\ Len(dungeon.teleportPads) = 2
    /\ \E c \in ObstacleDraws(room) \cup PadDraws(room) :
          /\ \E i \in DOMAIN dungeon.doors :
                rectsOverlap(c, EntranceMarginRect(room, dungeon.doors[i],
                                IF c.w = PAD_SIZE THEN PAD_ENTRANCE_MARGIN
                                ELSE ENTRANCE_MARGIN))
          /\ ~HitsExclude(c, ExcludeRectsWithoutEntrances(room, dungeon.doors,
                                IF c.w = PAD_SIZE THEN PAD_CENTER_MARGIN ELSE CENTER_MARGIN,
                                IF c.w = PAD_SIZE THEN PAD_DOOR_MARGIN ELSE DOOR_MARGIN, 0))

\* C12: generateTeleportPads returns two pads or none, never one; two returned pads
\* overlap neither each other nor any obstacle it was given.
C12_PadsPairOrNone ==
    dungeon.pc = "pads" =>
        /\ Len(dungeon.teleportPads) \in {0, 2}
        /\ Len(dungeon.teleportPads) = 2 =>
              /\ ~rectsOverlap(dungeon.teleportPads[1], dungeon.teleportPads[2])
              /\ \A p \in Range(dungeon.teleportPads), o \in Range(dungeon.obstacles) :
                    ~rectsOverlap(p, o)

\* no pad was returned for a room with obstacles, although some rectangle the
\* generator draws is free: every attempt for one of the two pads was rejected
C12_Witness ==
    /\ dungeon.pc = "pads"
    /\ dungeon.teleportPads = << >>
    /\ dungeon.obstacles # << >>
    /\ \E c \in PadDraws(room) :
          /\ ~HitsExclude(c, ExcludeRects(room, dungeon.doors, PAD_CENTER_MARGIN,
                                          PAD_DOOR_MARGIN, PAD_ENTRANCE_MARGIN))
          /\ \A o \in Range(dungeon.obstacles) : ~rectsOverlap(c, o)

\* two pads were returned next to the obstacles of the room
C12_WitnessPair ==
    /\ dungeon.pc = "pads"
    /\ Len(dungeon.teleportPads) = 2
    /\ dungeon.obstacles # << >>

----------------------------------------------------------------------------
(* Properties of the run *)

\* the duration of m had elapsed at instant now; obj is the instant m was registered
HadElapsed(m, now) == m.durationMs # NoDuration /\ now - m.obj >= m.durationMs

\* C18: in every playing tick processModifierDurations(now) runs before the derived
\* stats are read, so the values the tick applies (speed, maxHp, fire cooldown,
\* bullet speed, bullets per shot, enemy damage multiplier, difficulty modifier)
\* include no modifier whose duration had elapsed at the time of the tick.
C18_TickAppliesNoElapsedModifier ==
    [][lastOp'.op = "loop" =>
        LET now == lastOp'.arg
            live == SelectSeq(activeModifiers, LAMBDA m : ~HadElapsed(m, now))
            liveGlobal == SelectSeq(globalModifiers, LAMBDA m : ~HadElapsed(m, now))
        IN  dungeon'.applied = Applied(Evaluate(baseStats, live),
                                       Evaluate(GLOBAL_BASE, liveGlobal))
    ]_vars

\* a tick removed the elapsed haste modifier and an elapsed global modifier and
\* applied the speed and the difficulty without them
C18_Witness ==
    /\ lastOp.op = "loop"
    /\ \E m \in lastOp.pre.toRemove : m.id = "haste"
    /\ lastOp.pre.globalToRemove # {}
    /\ dungeon.applied.speed = baseStats["moveSpeed"]
    /\ dungeon.applied.difficultyModifier = 0

\* the list registerRunLoadoutFromMeta leaves for each loadout of the model
ExpectedLoadout(loadout) ==
    IF loadout.heroId # "vanguard" THEN << >>
    ELSE IF loadout.level = 0
    THEN << Literal("vanguard_hp", "hero", "flat", "maxHP", 1) >>
    ELSE << Literal("vanguard_hp", "hero", "flat", "maxHP", 1),
            Literal("hero_level_vanguard_maxHP", "hero", "flat", "maxHP", 1),
            Literal("rust_pistol_fireRate", "gear", "flat", "fireRate", -15),
            Literal("leather_coat_maxHP", "gear", "flat", "maxHP", 1) >>

\* the eliteIds of the elites in the enemy lists of the rooms
EliteIdsInRooms ==
    {e.eliteId : e \in {x \in UNION {Range(dungeon.rooms[id].enemies) :
                                        id \in DOMAIN dungeon.rooms} :
                           FieldOr(x, "isElite", FALSE)}}

\* C19: after startNewRun the active list holds exactly the modifiers that
\* registerRunLoadoutFromMeta registers for the selected hero and gear, the global
\* list and both start-time maps are empty, and the elite table holds no entry of
\* the run before: at most the entry of an elite of the new first wave.
C19_RunStartsClean ==
    [][lastOp'.op = "startNewRun" =>
        /\ activeModifiers' = ExpectedLoadout(lastOp'.arg)
        /\ globalModifiers' = << >>
        /\ DOMAIN modifierStartTimes' = {}
        /\ DOMAIN globalModifierStartTimes' = {}
        /\ DOMAIN eliteModifiers' \cap DOMAIN eliteModifiers = {}
        /\ DOMAIN eliteModifiers' \subseteq EliteIdsInRooms'
        /\ Cardinality(DOMAIN eliteModifiers') <= 1
    ]_vars

\* a run that had an upgrade, a global modifier and an elite with a table entry was
\* followed by startNewRun with the plain vanguard, whose first wave has an elite
C19_Witness ==
    /\ lastOp.op = "startNewRun"
    /\ lastOp.pre.eliteKeys # {}
    /\ Len(lastOp.pre.activeModifiers) = 2
    /\ Len(activeModifiers) = 1
    /\ DOMAIN eliteModifiers # {}

\* C20: detachAffixModifiers is called exactly once for every enemy that dies, in
\* the tick of its death, and after every step of the run each key of the elite
\* table is the eliteId of an elite that is in the enemy list of some room.
C20_DetachedOncePerDeath ==
    /\ [](dungeon.pc = "run" => DOMAIN eliteModifiers \subseteq EliteIdsInRooms)
    /\ [][lastOp'.op = "loop" =>
            /\ Range(lastOp'.pre.detached) = lastOp'.pre.dead
            /\ \A i, j \in DOMAIN lastOp'.pre.detached :
                  lastOp'.pre.detached[i] = lastOp'.pre.detached[j] => i = j
       ]_vars

\* a vampiric elite died in a tick: it left the room and the table, and the other
\* enemy of its wave is still in the room
C20_Witness ==
    /\ lastOp.op = "loop"
    /\ \E e \in lastOp.pre.dead :
          /\ FieldOr(e, "affix", "") = "vampiric"
          /\ e.eliteId \notin DOMAIN eliteModifiers
          /\ e.eliteId \notin EliteIdsInRooms
          /\ Len(dungeon.rooms[dungeon.currentRoomId].enemies) = 1

----------------------------------------------------------------------------
(* The elite selection of spawnEnemyWave (meta-progression.js 1949-1957) *)

\* values of Math.random(), in hundredths, for the draw against the chance: the
\* last value below and the first value at the chance without and at its cap
RollInputs == {27, 28, 64, 65}

\* values of Math.random(), in hundredths, for the index and the affix draws
DrawInputs == {0, 49, 50, 99}

ELITE_SPAWN_CHANCE_BASE == 28
ELITE_SPAWN_CHANCE_PER_DIFF == 3
ELITE_SPAWN_CHANCE_CAP == 65

\* getEliteSpawnChance(difficultyModifier), in hundredths
getEliteSpawnChance(difficultyModifier) ==
    Min2(ELITE_SPAWN_CHANCE_CAP,
         ELITE_SPAWN_CHANCE_BASE + difficultyModifier * ELITE_SPAWN_CHANCE_PER_DIFF)

\* AFFIX_POOL as the array it is
AFFIX_POOL_ARRAY == <<"frenzied", "hardened", "volatile", "vampiric">>

\* pickRandomAffix() when Math.random() returns r hundredths
pickRandomAffix(r) == AFFIX_POOL_ARRAY[((r * Len(AFFIX_POOL_ARRAY)) \div 100) + 1]

\* the difficultyModifier values of the model: none, one shrine deal, and a value
\* that reaches the cap of the chance
DifficultyInputs == {0, 1, 20}

\* the classes spawnEnemyWave instantiates (lines 1942-1945)
WaveClassInputs ==
    EnemyInputs \cup
        {[kind |-> "Splitter", speed |-> 120, health |-> 200, isSplitterChild |-> FALSE]}

\* the class of the model with the given name
WaveClass(kind) == CHOOSE c \in WaveClassInputs : c.kind = kind

\* the waves of the model
WaveListInputs ==
    {w \in { <<WaveClass("Enemy")>>,
             <<WaveClass("Sniper"), WaveClass("Splitter")>>,
             <<WaveClass("Charger"), WaveClass("Enemy")>>,
             <<WaveClass("Splitter"), WaveClass("Charger"), WaveClass("Sniper")>> } :
        Len(w) <= MaxWave}

\* variant: every enemy of the wave is chosen
ChosenEvery(wave, r) == DOMAIN wave

\* line 1952: the enemies chosen by eliteIndex = floor(random * wave.length)
Chosen(wave, r) == {((r * Len(wave)) \div 100) + 1}

RECURSIVE AttachAll(_, _, _, _, _)
\* attachAffix on the enemies of the wave at the indices left, in index order
AttachAll(wave, table, nextId, left, affixId) ==
    IF left = {} THEN [wave |-> wave, table |-> table, nextEliteId |-> nextId]
    ELSE LET i == CHOOSE x \in left : \A y \in left : x <= y
         IN  IF FieldOr(wave[i], "isSplitterChild", FALSE)
             THEN AttachAll(wave, table, nextId, left \ {i}, affixId)
             ELSE AttachAll([k \in DOMAIN wave |->
                                IF k = i THEN AttachedEnemy(wave[k], affixId, nextId)
                                ELSE wave[k]],
                            onAttach(table, nextId, AffixModifiers(affixId, nextId)),
                            nextId + 1, left \ {i}, affixId)

\* lines 1950-1957 on a wave, when the three Math.random() calls return roll,
\* indexDraw and affixDraw
eliteSelection(wave, table, nextId, difficultyModifier, roll, indexDraw, affixDraw) ==
    IF Len(wave) > 0 /\ roll < getEliteSpawnChance(difficultyModifier)
    THEN AttachAll(wave, table, nextId, Chosen(wave, indexDraw),
                   pickRandomAffix(affixDraw))
    ELSE [wave |-> wave, table |-> table, nextEliteId |-> nextId]

\* spawnEnemyWave() for a wave the loop of lines 1939-1947 built
SpawnEnemyWave(wave, difficultyModifier, roll, indexDraw, affixDraw) ==
    /\ nextEliteId < MaxEliteIds
    /\ LET built == WaveOf(wave, 0)
           out == eliteSelection(built, eliteModifiers, nextEliteId,
                                 difficultyModifier, roll, indexDraw, affixDraw)
       IN  /\ enemies' = out.wave
           /\ eliteModifiers' = out.table
           /\ nextEliteId' = out.nextEliteId
           /\ lastOp' = Op("spawnEnemyWave",
                            [difficultyModifier |-> difficultyModifier, roll |-> roll],
                            [wave |-> built])
    /\ UNCHANGED <<activeModifiers, globalModifiers, modifierStartTimes,
                   globalModifierStartTimes, derivedStatsCache, derivedGlobalCache,
                   baseStats, clock, dungeon>>

NextWave ==
    \/ \E wave \in WaveListInputs, d \in DifficultyInputs,
          roll \in RollInputs, indexDraw \in DrawInputs, affixDraw \in DrawInputs :
          SpawnEnemyWave(wave, d, roll, indexDraw, affixDraw)
    \/ ResetModifiers

SpecWave == Init /\ [][NextWave]_vars

\* the indices of the elites of a wave
ElitesOf(wave) == {i \in DOMAIN wave : FieldOr(wave[i], "isElite", FALSE)}

\* C21: spawnEnemyWave makes at most one enemy of a wave elite. One draw per wave
\* against the chance min(0.65, 0.28 + 0.03 * difficultyModifier) decides: when it
\* succeeds exactly one enemy of the wave is elite, with one affix of the pool and
\* a fresh eliteId, and the other enemies are as they were built; when it fails no
\* enemy is elite and the table and the counter are as before.
C21_AtMostOneElitePerWave ==
    [][lastOp'.op = "spawnEnemyWave" =>
        LET built == lastOp'.pre.wave
            d == lastOp'.arg.difficultyModifier
            chance == IF 28 + 3 * d > 65 THEN 65 ELSE 28 + 3 * d
            elites == ElitesOf(enemies')
        IN  /\ Cardinality(elites) <= 1
            /\ Len(enemies') = Len(built)
            /\ \A i \in DOMAIN built \ elites : enemies'[i] = built[i]
            /\ IF lastOp'.arg.roll < chance
               THEN /\ Cardinality(elites) = 1
                    /\ \A i \in elites :
                          /\ enemies'[i].affix \in AFFIX_POOL
                          /\ enemies'[i].eliteId = nextEliteId
                          /\ DOMAIN eliteModifiers' \subseteq
                                 DOMAIN eliteModifiers \cup {nextEliteId}
                    /\ nextEliteId' = nextEliteId + 1
               ELSE /\ elites = {}
                    /\ eliteModifiers' = eliteModifiers
                    /\ nextEliteId' = nextEliteId
    ]_vars

\* at the cap of the chance, the draw 0.64 succeeded on a wave of two enemies and
\* made the second one a hardened elite
C21_Witness ==
    /\ lastOp.op = "spawnEnemyWave"
    /\ lastOp.arg.difficultyModifier = 20
    /\ lastOp.arg.roll = 64
    /\ Len(enemies) = 2
    /\ ElitesOf(enemies) = {2}
    /\ enemies[2].affix = "hardened"
    /\ enemies[2].eliteId \in DOMAIN eliteModifiers

----------------------------------------------------------------------------
(* Elites in play: attachAffix, applyEliteStats every frame, hits, direct
   registrations in the elite table, detach and reset *)

\* modifiers a caller registers directly for an elite, next to those of its affix
MaxDirectMods == 1

\* the stat modifiers of the model for a direct addEliteModifier: values, in
\* hundredths for flat and as a factor for mult, that push each derived stat
\* past its clamp, and one that raises maxHealth
EliteStatInputs ==
    { [type |-> "flat", stat |-> "maxHealth", value |-> -1000],
      [type |-> "flat", stat |-> "maxHealth", value |-> 300],
      [type |-> "flat", stat |-> "damageReduction", value |-> 100],
      [type |-> "flat", stat |-> "damageReduction", value |-> -100],
      [type |-> "mult", stat |-> "speedMult", value |-> 0],
      [type |-> "mult", stat |-> "speed", value |-> -1] }

\* the modifier object of a direct registration for eliteId
DirectMod(input, eliteId) ==
    [id |-> <<"direct", eliteId>>, source |-> "elite", type |-> input.type,
     stat |-> input.stat, value |-> input.value, vtype |-> "number"]

\* the modifiers of the entry of elite enemy e that its affix did not register
DirectCount(e) ==
    Len(FieldOr(eliteModifiers, e.eliteId, << >>)) - Len(AffixModifiers(e.affix, e.eliteId))

\* addEliteModifier(enemy.eliteId, modifier) for the elite at index i
AddEliteStatModifier(i, input) ==
    /\ i \in DOMAIN enemies
    /\ FieldOr(enemies[i], "isElite", FALSE)
    /\ enemies[i].eliteId \in DOMAIN eliteModifiers \/ enemies[i].affix = "volatile"
    /\ DirectCount(enemies[i]) < MaxDirectMods
    /\ eliteModifiers' = addEliteModifier(eliteModifiers, enemies[i].eliteId,
                                          DirectMod(input, enemies[i].eliteId))
    /\ lastOp' = Op("addEliteModifier", enemies[i].eliteId, 0)
    /\ UNCHANGED <<activeModifiers, globalModifiers, modifierStartTimes,
                   globalModifierStartTimes, derivedStatsCache, derivedGlobalCache,
                   baseStats, clock, nextEliteId, enemies, dungeon>>

\* applyEliteStats(enemy) for the enemy at index i, as the tick calls it for
\* every enemy of the room (meta-progression.js line 3660)
ApplyEliteStats(i) ==
    /\ i \in DOMAIN enemies
    /\ enemies' = [k \in DOMAIN enemies |->
                      IF k = i THEN applyEliteStats(enemies[k]) ELSE enemies[k]]
    /\ lastOp' = Op("applyEliteStats", i, [before |-> enemies[i]])
    /\ UNCHANGED <<engineVars, nextEliteId, dungeon>>

\* a bullet hits the enemy at index i and leaves it alive (lines 3671-3674)
HitEnemy(i) ==
    /\ i \in DOMAIN enemies
    /\ LET e == enemies[i]
           effectiveDmg == Max2(25, 100 - FieldOr(e, "damageReduction", 0))
       IN  /\ e.health - effectiveDmg > 0
           /\ enemies' = [k \in DOMAIN enemies |->
                             IF k = i THEN [e EXCEPT !.health = e.health - effectiveDmg]
                             ELSE enemies[k]]
    /\ lastOp' = Op("hit", i, 0)
    /\ UNCHANGED <<engineVars, nextEliteId, dungeon>>

\* enemies in play at a time in this specification
MaxElitesInPlay == 1

NextAffix ==
    \/ \E e \in EnemyInputs : Len(enemies) < MaxElitesInPlay /\ SpawnEnemy(e)
    \/ \E i \in 1 .. MaxElitesInPlay, a \in AffixInputs : AttachAffix(i, a)
    \/ \E i \in 1 .. MaxElitesInPlay, input \in EliteStatInputs :
          AddEliteStatModifier(i, input)
    \/ \E i \in 1 .. MaxElitesInPlay : ApplyEliteStats(i)
    \/ \E i \in 1 .. MaxElitesInPlay : HitEnemy(i)
    \/ \E i \in 1 .. MaxElitesInPlay : DetachAffixModifiers(i)
    \/ ResetModifiers

SpecAffix == Init /\ [][NextAffix]_vars

----------------------------------------------------------------------------
(* Properties of elites in play *)

\* the enemy applyEliteStats was last called on
AppliedEnemy == enemies[lastOp.arg]

\* C22: after applyEliteStats(enemy) on an elite, maxHealth is at least 1,
\* damageReduction lies in [0, 0.5], eliteSpeedMult is at least 0.5 and the speed
\* of an enemy that has a speed field is at least 0.5, whichever flat or mult
\* modifiers its table entry holds (values in hundredths).
C22_AppliedStatsClamped ==
    (lastOp.op = "applyEliteStats" /\ FieldOr(AppliedEnemy, "isElite", FALSE)) =>
        /\ AppliedEnemy.maxHealth >= 100
        /\ AppliedEnemy.damageReduction >= 0
        /\ AppliedEnemy.damageReduction <= 50
        /\ AppliedEnemy.eliteSpeedMult >= 50
        /\ "speed" \in DOMAIN AppliedEnemy => AppliedEnemy.speed >= 50

\* applyEliteStats ran on an elite whose entry holds a flat modifier that takes the
\* derived maxHealth below zero: maxHealth is the floor
C22_Witness ==
    /\ lastOp.op = "applyEliteStats"
    /\ FieldOr(AppliedEnemy, "isElite", FALSE)
    /\ AppliedEnemy.eliteId \in DOMAIN eliteModifiers
    /\ \E m \in Range(eliteModifiers[AppliedEnemy.eliteId]) :
          m.stat = "maxHealth" /\ m.value = -1000
    /\ AppliedEnemy.maxHealth = 100

\* C29: a further applyEliteStats(enemy) with the same health and the same table
\* entry changes nothing: speed, maxHealth, damageReduction, eliteSpeedMult and
\* lifesteal stay at the values of the first call, also after two more calls.
C29_ApplyIsIdempotent ==
    (lastOp.op = "applyEliteStats" /\ FieldOr(AppliedEnemy, "isElite", FALSE)) =>
        LET again == applyEliteStats(AppliedEnemy)
            fields == {"speed", "maxHealth", "damageReduction", "eliteSpeedMult",
                       "lifesteal"} \cap DOMAIN AppliedEnemy
        IN  /\ DOMAIN again = DOMAIN AppliedEnemy
            /\ \A f \in fields : again[f] = AppliedEnemy[f]
            /\ \A f \in fields : applyEliteStats(again)[f] = AppliedEnemy[f]

\* applyEliteStats ran on a frenzied elite with a speed field: its speed is above
\* the baseline, so a call that started from the current speed would add again
C29_Witness ==
    /\ lastOp.op = "applyEliteStats"
    /\ FieldOr(AppliedEnemy, "affix", "") = "frenzied"
    /\ "speed" \in DOMAIN AppliedEnemy
    /\ AppliedEnemy.eliteId \in DOMAIN eliteModifiers
    /\ AppliedEnemy.speed > AppliedEnemy.baseSpeed

\* the baselines attachAffix recorded on enemy e
Baselines(e) == [f \in {"baseSpeed", "baseMaxHealth", "baseDamageReduction"} |-> e[f]]

C23_EliteIdsNeverReused ==
    [][/\ nextEliteId' >= nextEliteId
       /\ lastOp'.op = "resetModifiers" => nextEliteId' = nextEliteId
       /\ lastOp'.op = "attachAffix" =>
             LET i == lastOp'.arg[1]
                 affixId == lastOp'.arg[2]
             IN  IF affixId \in {"frenzied", "hardened", "volatile", "vampiric"}
                 THEN /\ enemies'[i].eliteId = nextEliteId
                      /\ nextEliteId' = nextEliteId + 1
                      /\ \A k \in DOMAIN enemies :
                            "eliteId" \in DOMAIN enemies[k] =>
                                enemies[k].eliteId < enemies'[i].eliteId
                      /\ \A id \in DOMAIN eliteModifiers : id < enemies'[i].eliteId
                 ELSE /\ enemies' = enemies
                      /\ nextEliteId' = nextEliteId
                      /\ eliteModifiers' = eliteModifiers
      ]_vars

\* the second enemy was attached after the table entry of the first was cleared:
\* it has the next id, not the id of the first
C23_Witness ==
    /\ lastOp.op = "attachAffix"
    /\ lastOp.arg = <<2, "vampiric">>
    /\ Len(enemies) = 2
    /\ FieldOr(enemies[1], "eliteId", -1) = 0
    /\ enemies[2].eliteId = 1
    /\ DOMAIN eliteModifiers = {1}
    /\ nextEliteId = 2

----------------------------------------------------------------------------
(* The boss door: meta-progression.js 1967-1985, 2230-2253, 3703-3770, 3861-3874 *)

\* the rooms of a run, scaled down from the 5..7 of generateDungeon
BossRunRooms == 3

\* the sizes of the waves spawnEnemyWave puts into a room
BossWaveSizes == {1, 2}

\* no door rectangle overlaps the player: an id no room has
NoDoor == BossRunRooms

\* the neighbours of every room under the edge set E
AdjOf(n, E) ==
    [id \in 0 .. n - 1 |-> {b \in 0 .. n - 1 : <<id, b>> \in E \/ <<b, id>> \in E}]

RECURSIVE ReachedFrom(_, _)
ReachedFrom(adj, seen) ==
    LET more == seen \cup UNION {adj[id] : id \in seen}
    IN  IF more = seen THEN seen ELSE ReachedFrom(adj, more)

\* the door graphs generateDungeon can return: every room reachable from room 0
DoorGraphs(n) ==
    LET pairs == {p \in (0 .. n - 1) \X (0 .. n - 1) : p[1] < p[2]}
    IN  {AdjOf(n, E) : E \in {F \in SUBSET pairs :
                                 ReachedFrom(AdjOf(n, F), {0}) = 0 .. n - 1}}

\* the room objects of generateDungeon (lines 587-601); enemies is the length of the list
BossRunRoom(adj, id, bossRoomId) ==
    [cleared |-> FALSE, isBossRoom |-> id = bossRoomId, enemies |-> 0, boss |-> FALSE,
     hasSpawnedEnemies |-> FALSE, doors |-> adj[id]]

\* areAllNonBossRoomsCleared
areAllNonBossRoomsCleared(rooms) ==
    LET nonBoss == {id \in DOMAIN rooms : ~rooms[id].isBossRoom}
    IN  nonBoss = {} \/ \A id \in nonBoss : rooms[id].cleared = TRUE

\* a door state that is never recomputed
updateBossDoorStateStale(rooms, unlocked) == unlocked

\* updateBossDoorState: bossDoorsUnlocked = areAllNonBossRoomsCleared()
updateBossDoorState(rooms, unlocked) == areAllNonBossRoomsCleared(rooms)

\* startNewRun: the rooms of a new dungeon, the wave of the start room, updateBossDoorState
StartBossRun(adj, bossRoomId, wave) ==
    /\ dungeon.pc = "menu"
    /\ LET fresh == [id \in DOMAIN adj |-> BossRunRoom(adj, id, bossRoomId)]
           rooms == [id \in DOMAIN adj |->
                        IF id = 0
                        THEN [cleared |-> FALSE, isBossRoom |-> FALSE, enemies |-> wave,
                              boss |-> FALSE, hasSpawnedEnemies |-> TRUE,
                              doors |-> adj[0]]
                        ELSE fresh[id]]
       IN  dungeon' = [pc |-> "run", rooms |-> rooms, currentRoomId |-> 0,
                       bossDoorsUnlocked |->
                           updateBossDoorState(rooms, dungeon.bossDoorsUnlocked),
                       gameState |-> "PLAYING"]
    /\ lastOp' = Op("startNewRun", bossRoomId, 0)
    /\ UNCHANGED <<engineVars, nextEliteId, enemies>>

\* transitionToRoom(fromRoomId, toRoomId): the rooms and the current room after it
transitionToRoom(rooms, fromRoomId, toRoomId, wave) ==
    LET target == rooms[toRoomId]
        arrived == IF target.hasSpawnedEnemies
                   THEN target
                   ELSE [cleared |-> target.cleared, isBossRoom |-> target.isBossRoom,
                         enemies |-> IF target.isBossRoom THEN 0 ELSE wave,
                         boss |-> target.isBossRoom,
                         hasSpawnedEnemies |-> TRUE, doors |-> target.doors]
    IN  IF fromRoomId \notin target.doors
        THEN [rooms |-> rooms, currentRoomId |-> fromRoomId]
        ELSE [rooms |-> [id \in DOMAIN rooms |-> IF id = toRoomId THEN arrived ELSE rooms[id]],
              currentRoomId |-> toRoomId]

\* one frame of the PLAYING state: kills enemies hit by bullets die, bossDies the boss
\* does, blocked says that a choice overlay is open or the player has just arrived, and
\* door is the room whose door rectangle the player overlaps
BossTick(kills, bossDies, blocked, door, wave) ==
    /\ dungeon.pc = "run"
    /\ dungeon.gameState = "PLAYING"
    /\ LET rooms == dungeon.rooms
           cur == dungeon.currentRoomId
           r == rooms[cur]
       IN  /\ kills \in 0 .. r.enemies
           /\ bossDies => r.boss
           /\ door \in r.doors \cup {NoDoor}
           /\ LET boss == r.boss /\ ~bossDies
                  clears == r.enemies = 0 /\ ~boss /\ ~r.cleared
                  r2 == [cleared |-> r.cleared \/ clears, isBossRoom |-> r.isBossRoom,
                         enemies |-> r.enemies, boss |-> boss,
                         hasSpawnedEnemies |-> r.hasSpawnedEnemies, doors |-> r.doors]
                  rooms2 == [id \in DOMAIN rooms |-> IF id = cur THEN r2 ELSE rooms[id]]
                  unlocked == IF clears
                              THEN updateBossDoorState(rooms2, dungeon.bossDoorsUnlocked)
                              ELSE dungeon.bossDoorsUnlocked
                  gameState == IF clears /\ r.isBossRoom THEN "VICTORY" ELSE "PLAYING"
                  goes == /\ ~blocked
                          /\ r2.cleared
                          /\ door # NoDoor
                          /\ ~(rooms2[door].isBossRoom /\ ~unlocked)
                  moved == IF goes
                           THEN transitionToRoom(rooms2, cur, door, wave)
                           ELSE [rooms |-> rooms2, currentRoomId |-> cur]
                  rn == moved.rooms[moved.currentRoomId]
                  \* rn.enemies = rn.enemies.filter(e => !hitEnemies.has(e))
                  left == IF moved.currentRoomId = cur THEN rn.enemies - kills
                          ELSE rn.enemies
                  rn2 == [cleared |-> rn.cleared, isBossRoom |-> rn.isBossRoom,
                          enemies |-> left, boss |-> rn.boss,
                          hasSpawnedEnemies |-> rn.hasSpawnedEnemies, doors |-> rn.doors]
              IN  dungeon' = [pc |-> "run",
                              rooms |-> [id \in DOMAIN rooms |->
                                            IF id = moved.currentRoomId THEN rn2
                                            ELSE moved.rooms[id]],
                              currentRoomId |-> moved.currentRoomId,
                              bossDoorsUnlocked |-> unlocked,
                              gameState |-> gameState]
           /\ lastOp' = Op("tick", door, [from |-> cur, blocked |-> blocked])
    /\ UNCHANGED <<engineVars, nextEliteId, enemies>>

\* Enter on the victory screen: VICTORY -> MENU
VictoryToMenu ==
    /\ dungeon.pc = "run"
    /\ dungeon.gameState = "VICTORY"
    /\ dungeon' = [pc |-> "menu", bossDoorsUnlocked |-> dungeon.bossDoorsUnlocked]
    /\ lastOp' = Op("menu", NoArg, 0)
    /\ UNCHANGED <<engineVars, nextEliteId, enemies>>

\* the game before its first run: let bossDoorsUnlocked = false
InitBoss ==
    /\ activeModifiers = << >>
    /\ globalModifiers = << >>
    /\ eliteModifiers = EmptyMap
    /\ modifierStartTimes = EmptyMap
    /\ globalModifierStartTimes = EmptyMap
    /\ derivedStatsCache = << >>
    /\ derivedGlobalCache = << >>
    /\ baseStats = createDefaultBaseStats
    /\ clock = 0
    /\ lastOp = Op("init", NoArg, 0)
    /\ nextEliteId = 0
    /\ enemies = << >>
    /\ dungeon = [pc |-> "menu", bossDoorsUnlocked |-> FALSE]

NextBoss ==
    \/ \E adj \in DoorGraphs(BossRunRooms), bossRoomId \in 1 .. BossRunRooms - 1,
          wave \in BossWaveSizes : StartBossRun(adj, bossRoomId, wave)
    \/ \E kills \in 0 .. 2, bossDies \in BOOLEAN, blocked \in BOOLEAN,
          door \in 0 .. NoDoor, wave \in BossWaveSizes :
          BossTick(kills, bossDies, blocked, door, wave)
    \/ VictoryToMenu

SpecBoss == InitBoss /\ [][NextBoss]_vars

\* C27: in every state of a run bossDoorsUnlocked says whether every non-boss room is
\* cleared; a frame moves the player into the boss room only when every non-boss room
\* is cleared by then; and no frame takes a cleared flag back to false
C27_BossRoomNeedsAllCleared ==
    /\ [](dungeon.pc = "run" =>
             dungeon.bossDoorsUnlocked =
                 (\A id \in DOMAIN dungeon.rooms :
                     dungeon.rooms[id].isBossRoom \/ dungeon.rooms[id].cleared))
    /\ [][(lastOp'.op = "tick") =>
             /\ (/\ dungeon'.currentRoomId # dungeon.currentRoomId
                 /\ dungeon'.rooms[dungeon'.currentRoomId].isBossRoom)
                => \A id \in DOMAIN dungeon'.rooms :
                      dungeon'.rooms[id].isBossRoom \/ dungeon'.rooms[id].cleared
             /\ \A id \in DOMAIN dungeon.rooms :
                   dungeon.rooms[id].cleared => dungeon'.rooms[id].cleared]_vars

\* the player has walked into the boss room in this frame, every other room cleared
C27_Witness ==
    /\ lastOp.op = "tick"
    /\ dungeon.rooms[dungeon.currentRoomId].isBossRoom
    /\ lastOp.pre.from # dungeon.currentRoomId
    /\ dungeon.rooms[dungeon.currentRoomId].boss
    /\ dungeon.bossDoorsUnlocked
    /\ \A id \in DOMAIN dungeon.rooms :
          id # dungeon.currentRoomId => dungeon.rooms[id].cleared

----------------------------------------------------------------------------
(* Expiry sweeps *)

\* the indices of list whose modifier has durationMs set, a tracked start and
\* now - start >= durationMs
DueIdx(list, times, now) ==
    {i \in DOMAIN list :
        /\ list[i].durationMs # NoDuration
        /\ list[i] \in DOMAIN times
        /\ now - times[list[i]] >= list[i].durationMs}

\* list and times after a sweep that removes exactly the due modifiers
SweptExactly(list, times, listAfter, timesAfter, now) ==
    LET due == DueIdx(list, times, now)
        gone == {list[i] : i \in due}
    IN  /\ listAfter = SelectSeqBy(list, DOMAIN list \ due)
        /\ DOMAIN timesAfter = DOMAIN times \ gone
        /\ \A m \in DOMAIN timesAfter : timesAfter[m] = times[m]

\* C25: processModifierDurations(now) removes from the active list and from the global
\* list exactly the modifiers that have durationMs set, a tracked start time and
\* now - start >= durationMs, deletes their start-time entries, and leaves every other
\* modifier in its original relative order with its start time.
C25_SweepRemovesExactlyTheDue ==
    [][lastOp'.op = "processModifierDurations" =>
        /\ SweptExactly(activeModifiers, modifierStartTimes,
                        activeModifiers', modifierStartTimes', lastOp'.arg)
        /\ SweptExactly(globalModifiers, globalModifierStartTimes,
                        globalModifiers', globalModifierStartTimes', lastOp'.arg)
    ]_vars

\* processModifierDurations(1000) has just removed the 1000 ms modifier registered at
\* instant 0, at the very instant its duration is over, and kept the modifier
\* registered before it
C25_Witness ==
    /\ lastOp.op = "processModifierDurations" /\ lastOp.arg = 1000
    /\ \E m \in lastOp.pre[1] :
          /\ m.durationMs = 1000 /\ m.obj = 0
          /\ m \notin Range(activeModifiers)
          /\ m \notin DOMAIN modifierStartTimes
    /\ Len(activeModifiers) = 1
    /\ activeModifiers[1].durationMs = NoDuration

----------------------------------------------------------------------------
(* Refreshing a timed modifier *)

\* the instants of registrations and sweeps, in ms
RefreshTimePoints == 0 .. 5

\* a buff of 2 ms registered under the 'stack' rule and under the 'refresh' rule, and a
\* permanent modifier of another source
RefreshModifierInputs ==
    { Mod("a", "hero", "flat", "damage", 1, 2, "stack"),
      Mod("a", "hero", "mult", "damage", 2, 2, "refresh"),
      Mod("a", "ring", "flat", "damage", 1, NoDuration, "stack") }

\* time passes between two calls into the engine
RefreshTimePasses ==
    /\ \E t \in RefreshTimePoints : t > clock /\ clock' = t
    /\ lastOp' = Op("tick", NoArg, 0)
    /\ UNCHANGED <<activeModifiers, globalModifiers, eliteModifiers, modifierStartTimes,
                   globalModifierStartTimes, derivedStatsCache, derivedGlobalCache,
                   baseStats, nextEliteId, enemies, dungeon>>

NextRefresh ==
    \/ \E input \in RefreshModifierInputs : AddModifier(input)
    \/ ProcessModifierDurations(clock)
    \/ ResetModifiers
    \/ RefreshTimePasses

SpecRefresh == Init /\ [][NextRefresh]_vars

\* m is in the list as the 'refresh' re-registration of a timed modifier of the same
\* (id, source) that was registered at an earlier instant t0: the start time of the
\* replaced object is still tracked. m.obj is the instant at which m was registered.
Refreshed(m, t0) ==
    /\ m \in Range(activeModifiers)
    /\ m.stackRule = "refresh"
    /\ m.durationMs # NoDuration
    /\ \E old \in DOMAIN modifierStartTimes :
          /\ SameIdentity(old, m)
          /\ old.obj = t0
          /\ t0 < m.obj
          /\ old \notin Range(activeModifiers)

\* C26: a timed modifier registered at t0 and re-registered with stackRule 'refresh' at
\* t1 > t0 survives every processModifierDurations(now) with now < t1 + durationMs, even
\* when now >= t0 + durationMs, and is removed by one with now >= t1 + durationMs.
C26_RefreshRestartsDuration ==
    [][lastOp'.op = "processModifierDurations" =>
        \A m \in Range(activeModifiers) : \A t0 \in RefreshTimePoints :
            Refreshed(m, t0) =>
                /\ lastOp'.arg < m.obj + m.durationMs => m \in Range(activeModifiers')
                /\ lastOp'.arg >= m.obj + m.durationMs => m \notin Range(activeModifiers')
    ]_vars

\* the buff registered at 0 and refreshed at 1 has just survived the sweep at instant 2,
\* when the duration of the first registration was over
C26_Witness ==
    /\ lastOp.op = "processModifierDurations" /\ lastOp.arg = 2
    /\ \E m \in Range(activeModifiers) :
          /\ Refreshed(m, 0)
          /\ m.obj = 1
          /\ lastOp.arg >= 0 + m.durationMs
          /\ lastOp.arg < m.obj + m.durationMs

----------------------------------------------------------------------------
(* The elite table next to the player and global lists *)

\* the entity ids of direct addEliteModifier and removeEliteModifiers calls
ScopeEntityIds == {0, 1}

\* the modifiers the player and global lists hold while elites come and go
ScopePlayerInputs == { Mod("a", "hero", "flat", "damage", 1, NoDuration, "stack") }

ScopeGlobalInputs ==
    { Mod("g", "shrine", "flat", "difficultyModifier", 1, NoDuration, "stack") }

\* removeEliteModifiers(entityId) called directly
RemoveEliteModifiers(entityId) ==
    /\ eliteModifiers' = removeEliteModifiers(eliteModifiers, entityId)
    /\ lastOp' = Op("removeEliteModifiers", entityId, 0)
    /\ UNCHANGED <<activeModifiers, globalModifiers, modifierStartTimes,
                   globalModifierStartTimes, derivedStatsCache, derivedGlobalCache,
                   baseStats, clock, nextEliteId, enemies, dungeon>>

NextScope ==
    \/ \E input \in ScopePlayerInputs : AddModifier(input)
    \/ \E input \in ScopeGlobalInputs : AddGlobalModifier(input)
    \/ GetDerivedStats
    \/ GetDerivedGlobal
    \/ \E e \in EnemyInputs : Len(enemies) < MaxElitesInPlay /\ SpawnEnemy(e)
    \/ \E i \in 1 .. MaxEnemies, a \in AffixInputs : AttachAffix(i, a)
    \/ \E id \in ScopeEntityIds, m \in EliteModifierInputs : AddEliteModifier(id, m)
    \/ \E id \in ScopeEntityIds : RemoveEliteModifiers(id)

SpecScope == Init /\ [][NextScope]_vars

\* the base records handed to getEliteDerivedStats
ScopeProbes ==
    { [speed |-> 120, speedMult |-> 100, maxHealth |-> 200, damageReduction |-> 0,
       lifesteal |-> 0] }

\* the entity an elite operation is for: the entityId argument, or the id attachAffix
\* takes from the counter
ScopeEntity ==
    IF lastOp'.op = "attachAffix" THEN nextEliteId ELSE lastOp'.arg

\* C28: addEliteModifier(A, m), attachAffix and removeEliteModifiers(A) leave
\* getEliteDerivedStats(B, base) as it was for every B other than A, leave the values
\* of getDerivedStats() and getDerivedGlobal() as they were, and leave both caches
\* as they were.
C28_EliteScopedPerEntity ==
    [][lastOp'.op \in {"addEliteModifier", "attachAffix", "removeEliteModifiers"} =>
        /\ \A B \in (0 .. MaxEliteIds) \ {ScopeEntity} : \A base \in ScopeProbes :
              getEliteDerivedStats(B, base)' = getEliteDerivedStats(B, base)
        /\ GetDerivedStatsResult' = GetDerivedStatsResult
        /\ GetDerivedGlobalResult' = GetDerivedGlobalResult
        /\ derivedStatsCache' = derivedStatsCache
        /\ derivedGlobalCache' = derivedGlobalCache
    ]_vars

\* addEliteModifier(1, m) has just acted while elite 0 holds the modifiers of its affix
\* and both caches are filled
C28_Witness ==
    /\ lastOp.op = "addEliteModifier" /\ lastOp.arg = 1
    /\ 0 \in DOMAIN eliteModifiers /\ Len(eliteModifiers[0]) = 2
    /\ 1 \in DOMAIN eliteModifiers /\ Len(eliteModifiers[1]) = 1
    /\ \E base \in ScopeProbes :
          /\ getEliteDerivedStats(0, base) # base
          /\ getEliteDerivedStats(0, base) # getEliteDerivedStats(1, base)
    /\ derivedStatsCache # << >> /\ derivedStatsCache[1] # baseStats
    /\ derivedGlobalCache # << >> /\ derivedGlobalCache[1] # GLOBAL_BASE

----------------------------------------------------------------------------
(* The loops of generateDungeon, generateObstacles and generateTeleportPads, one
   iteration per step. What an attempt draws and tests is left open: every attempt
   can end in each way its body allows. attempts counts the bodies run for the
   current edge, obstacle or pad. *)

\* variant: a retry loop without a budget
BudgetLeftAlways(attempts, max) == TRUE

\* attempts < 20, attempt < MAX_OBSTACLE_ATTEMPTS, attempt < MAX_PAD_ATTEMPTS
BudgetLeft(attempts, max) == attempts < max

\* generateDungeon is called: lines 546-551
LoopCallDungeon(roomCount) ==
    /\ dungeon.pc \in {"idle", "returned"}
    /\ dungeon' = [pc |-> "tree", roomCount |-> roomCount, connected |-> {0},
                   unconnected |-> 1 .. roomCount - 1, iterations |-> 0]
    /\ lastOp' = Op("generateDungeon", roomCount, 0)
    /\ UNCHANGED <<engineVars, nextEliteId, enemies>>

\* one iteration of while (unconnected.size > 0)
LoopConnect(toAdd, toConnect) ==
    /\ dungeon.pc = "tree"
    /\ toAdd \in dungeon.unconnected
    /\ toConnect \in dungeon.connected
    /\ dungeon' = [pc |-> "tree", roomCount |-> dungeon.roomCount,
                   connected |-> SetAdd(dungeon.connected, toAdd),
                   unconnected |-> dungeon.unconnected \ {toAdd},
                   iterations |-> dungeon.iterations + 1]
    /\ lastOp' = Op("connect", toAdd, 0)
    /\ UNCHANGED <<engineVars, nextEliteId, enemies>>

\* the while loop is left; extraEdges = 1 + floor(random * 2)
LoopDrawExtraEdges(extraEdges) ==
    /\ dungeon.pc = "tree"
    /\ dungeon.unconnected = {}
    /\ dungeon' = [pc |-> "edges", roomCount |-> dungeon.roomCount,
                   iterations |-> dungeon.iterations, extraEdges |-> extraEdges,
                   e |-> 0, attempts |-> 0, added |-> FALSE]
    /\ lastOp' = Op("extraEdges", extraEdges, 0)
    /\ UNCHANGED <<engineVars, nextEliteId, enemies>>

\* one body of for (attempts = 0; attempts < 20 && !added; attempts++): a continue
\* (b === a, an existing edge, a full endpoint) or the edge is added
LoopEdgeAttempt(isAdded) ==
    /\ dungeon.pc = "edges"
    /\ dungeon.e < dungeon.extraEdges
    /\ BudgetLeft(dungeon.attempts, MaxAttempts)
    /\ ~dungeon.added
    /\ dungeon' = [pc |-> "edges", roomCount |-> dungeon.roomCount,
                   iterations |-> dungeon.iterations,
                   extraEdges |-> dungeon.extraEdges, e |-> dungeon.e,
                   attempts |-> dungeon.attempts + 1, added |-> isAdded]
    /\ lastOp' = Op("edgeAttempt", isAdded, 0)
    /\ UNCHANGED <<engineVars, nextEliteId, enemies>>

\* the attempt loop of an extra edge is left: e++
LoopEdgeNext ==
    /\ dungeon.pc = "edges"
    /\ dungeon.e < dungeon.extraEdges
    /\ ~BudgetLeft(dungeon.attempts, MaxAttempts) \/ dungeon.added
    /\ dungeon' = [pc |-> "edges", roomCount |-> dungeon.roomCount,
                   iterations |-> dungeon.iterations,
                   extraEdges |-> dungeon.extraEdges, e |-> dungeon.e + 1,
                   attempts |-> 0, added |-> FALSE]
    /\ lastOp' = Op("edgeNext", dungeon.attempts, 0)
    /\ UNCHANGED <<engineVars, nextEliteId, enemies>>

\* the rooms are built (a for loop over the room ids) and generateDungeon returns
LoopDungeonReturn ==
    /\ dungeon.pc = "edges"
    /\ dungeon.e = dungeon.extraEdges
    /\ dungeon' = [pc |-> "returned", fn |-> "generateDungeon",
                   attempts |-> 0, result |-> dungeon.roomCount]
    /\ lastOp' = Op("return", "generateDungeon", 0)
    /\ UNCHANGED <<engineVars, nextEliteId, enemies>>

\* generateObstacles is called: count = 2 + floor(random * 4)
LoopCallObstacles(count) ==
    /\ dungeon.pc \in {"idle", "returned"}
    /\ dungeon' = [pc |-> "obstacles", count |-> count, i |-> 0, attempts |-> 0,
                   placed |-> FALSE, broke |-> FALSE, obstacles |-> 0,
                   anySkipped |-> FALSE]
    /\ lastOp' = Op("generateObstacles", count, 0)
    /\ UNCHANGED <<engineVars, nextEliteId, enemies>>

\* one body of for (attempt = 0; attempt < MAX_OBSTACLE_ATTEMPTS; attempt++): break
\* (no room for the wall), continue (hitsExclude), fall through (wouldStack), or push
LoopObstacleAttempt(outcome) ==
    /\ dungeon.pc = "obstacles"
    /\ dungeon.i < dungeon.count
    /\ BudgetLeft(dungeon.attempts, MAX_OBSTACLE_ATTEMPTS)
    /\ ~dungeon.placed /\ ~dungeon.broke
    /\ dungeon' = [pc |-> "obstacles", count |-> dungeon.count, i |-> dungeon.i,
                   attempts |-> dungeon.attempts + 1,
                   placed |-> outcome = "placed", broke |-> outcome = "break",
                   obstacles |-> dungeon.obstacles + (IF outcome = "placed" THEN 1 ELSE 0),
                   anySkipped |-> dungeon.anySkipped]
    /\ lastOp' = Op("obstacleAttempt", outcome, 0)
    /\ UNCHANGED <<engineVars, nextEliteId, enemies>>

\* the attempt loop of an obstacle is left: if (!placed) anySkipped = true; i++
LoopObstacleNext ==
    /\ dungeon.pc = "obstacles"
    /\ dungeon.i < dungeon.count
    /\ \/ ~BudgetLeft(dungeon.attempts, MAX_OBSTACLE_ATTEMPTS)
       \/ dungeon.placed
       \/ dungeon.broke
    /\ dungeon' = [pc |-> "obstacles", count |-> dungeon.count, i |-> dungeon.i + 1,
                   attempts |-> 0, placed |-> FALSE, broke |-> FALSE,
                   obstacles |-> dungeon.obstacles,
                   anySkipped |-> dungeon.anySkipped \/ ~dungeon.placed]
    /\ lastOp' = Op("obstacleNext", dungeon.attempts, 0)
    /\ UNCHANGED <<engineVars, nextEliteId, enemies>>

\* the fallback pop and the return of generateObstacles
LoopObstaclesReturn ==
    /\ dungeon.pc = "obstacles"
    /\ dungeon.i = dungeon.count
    /\ dungeon' = [pc |-> "returned", fn |-> "generateObstacles", attempts |-> 0,
                   result |-> IF dungeon.anySkipped /\ dungeon.obstacles >= 2
                              THEN dungeon.obstacles - 1 ELSE dungeon.obstacles]
    /\ lastOp' = Op("return", "generateObstacles", 0)
    /\ UNCHANGED <<engineVars, nextEliteId, enemies>>

\* generateTeleportPads is called
LoopCallPads ==
    /\ dungeon.pc \in {"idle", "returned"}
    /\ dungeon' = [pc |-> "pads", i |-> 0, attempts |-> 0, placed |-> FALSE,
                   broke |-> FALSE, pads |-> 0]
    /\ lastOp' = Op("generateTeleportPads", NoArg, 0)
    /\ UNCHANGED <<engineVars, nextEliteId, enemies>>

\* one body of for (attempt = 0; attempt < MAX_PAD_ATTEMPTS; attempt++): break, a
\* rectangle that hits something, or push
LoopPadAttempt(outcome) ==
    /\ dungeon.pc = "pads"
    /\ dungeon.i < PADS_REQUIRED
    /\ BudgetLeft(dungeon.attempts, MAX_PAD_ATTEMPTS)
    /\ ~dungeon.placed /\ ~dungeon.broke
    /\ dungeon' = [pc |-> "pads", i |-> dungeon.i, attempts |-> dungeon.attempts + 1,
                   placed |-> outcome = "placed", broke |-> outcome = "break",
                   pads |-> dungeon.pads + (IF outcome = "placed" THEN 1 ELSE 0)]
    /\ lastOp' = Op("padAttempt", outcome, 0)
    /\ UNCHANGED <<engineVars, nextEliteId, enemies>>

\* the attempt loop of a pad is left: if (!placed) return []; i++
LoopPadNext ==
    /\ dungeon.pc = "pads"
    /\ dungeon.i < PADS_REQUIRED
    /\ \/ ~BudgetLeft(dungeon.attempts, MAX_PAD_ATTEMPTS)
       \/ dungeon.placed
       \/ dungeon.broke
    /\ dungeon' = IF dungeon.placed
                  THEN [pc |-> "pads", i |-> dungeon.i + 1, attempts |-> 0,
                        placed |-> FALSE, broke |-> FALSE, pads |-> dungeon.pads]
                  ELSE [pc |-> "returned", fn |-> "generateTeleportPads",
                        attempts |-> dungeon.attempts, result |-> 0]
    /\ lastOp' = Op("padNext", dungeon.attempts, 0)
    /\ UNCHANGED <<engineVars, nextEliteId, enemies>>

\* return pads
LoopPadsReturn ==
    /\ dungeon.pc = "pads"
    /\ dungeon.i = PADS_REQUIRED
    /\ dungeon' = [pc |-> "returned", fn |-> "generateTeleportPads", attempts |-> 0,
                   result |-> dungeon.pads]
    /\ lastOp' = Op("return", "generateTeleportPads", 0)
    /\ UNCHANGED <<engineVars, nextEliteId, enemies>>

\* the calls a caller makes
LoopCalls ==
    \/ \E roomCount \in RoomCounts : LoopCallDungeon(roomCount)
    \/ \E count \in ObstacleCounts : LoopCallObstacles(count)
    \/ LoopCallPads

\* the statements of a call that is running
LoopSteps ==
    \/ \E toAdd, toConnect \in RoomIds(MinRoomCount + MaxRoomDraw) :
          LoopConnect(toAdd, toConnect)
    \/ \E extraEdges \in 1 .. MaxExtraEdges : LoopDrawExtraEdges(extraEdges)
    \/ \E isAdded \in BOOLEAN : LoopEdgeAttempt(isAdded)
    \/ LoopEdgeNext
    \/ LoopDungeonReturn
    \/ \E outcome \in {"break", "hitsExclude", "stacks", "placed"} :
          LoopObstacleAttempt(outcome)
    \/ LoopObstacleNext
    \/ LoopObstaclesReturn
    \/ \E outcome \in {"break", "hits", "placed"} : LoopPadAttempt(outcome)
    \/ LoopPadNext
    \/ LoopPadsReturn

NextLoops == LoopCalls \/ LoopSteps

SpecLoops == Init /\ [][NextLoops]_vars

\* a call that is running executes its next statement: JavaScript runs a function to
\* completion
SpecLoopsFair == SpecLoops /\ WF_vars(LoopSteps)

LoopRunning == dungeon.pc \in {"tree", "edges", "obstacles", "pads"}

\* C24: whatever the draws, the spanning-tree loop has run roomCount - 1 times when it
\* is left, an extra edge gets at most 20 attempts, an obstacle at most 30, a pad at
\* most 40, and every call of the three functions returns.
C24_GeneratorsTerminate ==
    /\ [](/\ dungeon.pc = "tree" =>
                dungeon.iterations + Cardinality(dungeon.unconnected)
                    = dungeon.roomCount - 1
          /\ dungeon.pc = "edges" =>
                dungeon.iterations = dungeon.roomCount - 1 /\ dungeon.attempts <= 20
          /\ dungeon.pc = "obstacles" => dungeon.attempts <= 30
          /\ dungeon.pc = "pads" => dungeon.attempts <= 40)
    /\ LoopRunning ~> dungeon.pc = "returned"

\* generateTeleportPads has returned no pads after the 40 attempts of a pad failed
C24_Witness ==
    /\ dungeon.pc = "returned"
    /\ dungeon.fn = "generateTeleportPads"
    /\ dungeon.attempts = 40
    /\ dungeon.result = 0

----------------------------------------------------------------------------
(* The low-HP bonus of a frenzied elite *)

\* the speed getEliteDerivedStats gives the elite e from its baselines
DerivedSpeed(e) ==
    getEliteDerivedStats(e.eliteId,
        [speed |-> e.baseSpeed, maxHealth |-> e.baseMaxHealth, damageReduction |-> 0,
         speedMult |-> 100, lifesteal |-> 0]).speed

\* C31: applyEliteStats on a frenzied elite with a speed field sets speed to the derived
\* speed plus 0.5 exactly when health / maxHealth < 0.5 at that call, and to the derived
\* speed alone otherwise (under the floor of 0.5 that the call puts under every speed);
\* the call registers nothing in the table, so a later call with health at or above
\* half gives the derived speed without the bonus. Values in hundredths.
C31_FrenziedLowHpBonus ==
    [][lastOp'.op = "applyEliteStats" =>
        LET e == enemies'[lastOp'.arg]
        IN  (/\ FieldOr(e, "isElite", FALSE)
             /\ FieldOr(e, "affix", "") = "frenzied"
             /\ "speed" \in DOMAIN e) =>
                /\ eliteModifiers' = eliteModifiers
                /\ e.health = enemies[lastOp'.arg].health
                /\ 2 * e.health < e.maxHealth => e.speed = Max2(50, DerivedSpeed(e) + 50)
                /\ 2 * e.health >= e.maxHealth => e.speed = Max2(50, DerivedSpeed(e))
    ]_vars

\* applyEliteStats ran on a frenzied Enemy at health 2 of maxHealth 5: its speed is
\* 1.2 + 0.4 + 0.5, and its table entry holds no modifier of 0.5
C31_Witness ==
    /\ lastOp.op = "applyEliteStats"
    /\ FieldOr(AppliedEnemy, "affix", "") = "frenzied"
    /\ "speed" \in DOMAIN AppliedEnemy
    /\ AppliedEnemy.health = 200 /\ AppliedEnemy.maxHealth = 500
    /\ AppliedEnemy.speed = 210
    /\ AppliedEnemy.eliteId \in DOMAIN eliteModifiers
    /\ \A m \in Range(eliteModifiers[AppliedEnemy.eliteId]) : m.value # 50

----------------------------------------------------------------------------
(* The health of an elite at attach *)

\* C32: attachAffix(enemy, 'hardened') raises enemy.health by 2 and stores the health
\* from before the bonus as the baseline max health, so that applyEliteStats right
\* after the attach gives maxHealth = health; attachAffix with any other affix, or
\* with an unknown one, leaves health as it was. Values in hundredths.
C32_HardenedStartsFull ==
    [][lastOp'.op = "attachAffix" =>
        \A i \in DOMAIN enemies : \A affixId \in AffixInputs :
            lastOp'.arg = <<i, affixId>> =>
            /\ affixId = "hardened" =>
                  /\ enemies'[i].health = enemies[i].health + 200
                  /\ enemies'[i].baseMaxHealth = enemies[i].health
                  /\ (applyEliteStats(enemies[i]))'.maxHealth = enemies'[i].health
            /\ affixId # "hardened" => enemies'[i].health = enemies[i].health
    ]_vars

\* attachAffix(enemy, 'hardened') has just acted on an enemy of health 2: health 4,
\* baseline 2, and applyEliteStats would give maxHealth 4
C32_Witness ==
    /\ lastOp.op = "attachAffix"
    /\ lastOp.arg[2] = "hardened"
    /\ enemies[lastOp.arg[1]].health = 400
    /\ enemies[lastOp.arg[1]].baseMaxHealth = 200
    /\ applyEliteStats(enemies[lastOp.arg[1]]).maxHealth = 400

----------------------------------------------------------------------------
(* generateObstacles, one obstacle per step, with draws that land next to each other *)

\* the values of Math.random() * maxX and Math.random() * maxY the attempts draw here:
\* two horizontal walls drawn 8 apart are flush, two drawn 30 apart are near-stacked
StackOffsetsX == {0, 300}

StackOffsetsY == {300, 308, 330}

\* lines 411-423 with these draws
StackDraws(r) ==
    LET inner == Inner(r) IN
    UNION {
        LET maxX == inner.w - 2 * GAP - size[1]
            maxY == inner.h - 2 * GAP - size[2]
        IN  {Rect(inner.x + GAP + dx, inner.y + GAP + dy, size[1], size[2]) :
                dx \in {d \in StackOffsetsX : d < maxX},
                dy \in {d \in StackOffsetsY : d < maxY}}
        : size \in ObstacleSizes}

\* generateObstacles(room, doors) is called and draws count
StackCall(doors, count) ==
    /\ dungeon.pc = "idle"
    /\ dungeon' = [pc |-> "placing", doors |-> doors, count |-> count, i |-> 0,
                   obstacles |-> << >>, anySkipped |-> FALSE]
    /\ lastOp' = Op("generateObstacles", count, 0)
    /\ UNCHANGED <<engineVars, nextEliteId, enemies>>

\* lines 408-435 for obstacle i: the attempt loop pushes an accepted rectangle, or
\* every attempt is rejected and anySkipped is set
StackPlace ==
    /\ dungeon.pc = "placing"
    /\ dungeon.i < dungeon.count
    /\ LET excludeRects == ExcludeRects(room, dungeon.doors, CENTER_MARGIN, DOOR_MARGIN,
                                        ENTRANCE_MARGIN)
           draws == StackDraws(room)
           accepted == {c \in draws : ~HitsExclude(c, excludeRects)
                                        /\ ~wouldStack(c, dungeon.obstacles)}
       IN  \E o \in PlaceAttempts(MAX_OBSTACLE_ATTEMPTS, accepted, draws \ accepted,
                                  ObstacleBreaks(room)) :
              /\ dungeon' = [pc |-> "placing", doors |-> dungeon.doors,
                             count |-> dungeon.count, i |-> dungeon.i + 1,
                             obstacles |-> IF o.placed
                                           THEN Append(dungeon.obstacles, o.rect)
                                           ELSE dungeon.obstacles,
                             anySkipped |-> dungeon.anySkipped \/ ~o.placed]
              /\ lastOp' = Op("place", o.placed, 0)
    /\ UNCHANGED <<engineVars, nextEliteId, enemies>>

\* variant: no fallback
popFallbackNever(obstacles, anySkipped) == obstacles

\* lines 438-440: if (anySkipped && obstacles.length >= 2) obstacles.pop()
popFallback(obstacles, anySkipped) ==
    IF anySkipped /\ Len(obstacles) >= 2
    THEN SubSeq(obstacles, 1, Len(obstacles) - 1)
    ELSE obstacles

\* lines 437-442: the fallback pop and the return
StackReturn ==
    /\ dungeon.pc = "placing"
    /\ dungeon.i = dungeon.count
    /\ dungeon' = [pc |-> "returned", requested |-> dungeon.count,
                   placed |-> Len(dungeon.obstacles),
                   anySkipped |-> dungeon.anySkipped,
                   obstacles |-> popFallback(dungeon.obstacles, dungeon.anySkipped)]
    /\ lastOp' = Op("return", "generateObstacles", 0)
    /\ UNCHANGED <<engineVars, nextEliteId, enemies>>

NextStack ==
    \/ \E doors \in DoorListInputs, count \in ObstacleCounts : StackCall(doors, count)
    \/ StackPlace
    \/ StackReturn

SpecStack == Init /\ [][NextStack]_vars

\* the length two intervals [a, a + la) and [b, b + lb) share
Shared(a, la, b, lb) == Max2(0, Min2(a + la, b + lb) - Max2(a, b))

\* the distance between two intervals that share nothing
Apart(a, la, b, lb) == IF a + la <= b THEN b - (a + la) ELSE a - (b + lb)

\* C33: no two obstacles returned by generateObstacles overlap, and no pair has an
\* X-overlap above 15 together with a vertical gap under 45, nor a Y-overlap above 15
\* together with a horizontal gap under 45.
C33_NoOverlapNoStack ==
    dungeon.pc = "returned" =>
        \A i, j \in DOMAIN dungeon.obstacles : i < j =>
            LET a == dungeon.obstacles[i]
                b == dungeon.obstacles[j]
                xOverlap == Shared(a.x, a.w, b.x, b.w)
                yOverlap == Shared(a.y, a.h, b.y, b.h)
            IN  /\ ~(xOverlap > 0 /\ yOverlap > 0)
                /\ (xOverlap > 15 /\ yOverlap = 0) => Apart(a.y, a.h, b.y, b.h) >= 45
                /\ (yOverlap > 15 /\ xOverlap = 0) => Apart(a.x, a.w, b.x, b.w) >= 45

\* C34: generateObstacles returns at most 5 obstacles; when a requested obstacle was
\* skipped and at least 2 were placed, the result is the placed list without its last
\* entry and holds at most requested - 2 obstacles; when none was skipped, or fewer
\* than 2 were placed, the result is the placed list.
C34_FallbackDropsLast ==
    [][(dungeon.pc = "placing" /\ dungeon'.pc = "returned") =>
        LET placed == dungeon.obstacles
            result == dungeon'.obstacles
        IN  /\ Len(result) <= 5
            /\ (dungeon.anySkipped /\ Len(placed) >= 2) =>
                  /\ result = SubSeq(placed, 1, Len(placed) - 1)
                  /\ Len(result) <= dungeon.count - 2
            /\ (~dungeon.anySkipped \/ Len(placed) < 2) => result = placed
    ]_vars

\* generateObstacles has returned one obstacle: 3 were requested, 2 were placed, one
\* was skipped and the last placed one was dropped
C34_Witness ==
    /\ dungeon.pc = "returned"
    /\ dungeon.requested = 3
    /\ dungeon.placed = 2
    /\ dungeon.anySkipped
    /\ Len(dungeon.obstacles) = 1

----------------------------------------------------------------------------
(* The doors of a generated dungeon *)

\* the elements of a set of room ids in ascending order
RECURSIVE Ascending(_)
Ascending(set) ==
    IF set = {} THEN << >>
    ELSE LET least == CHOOSE x \in set : \A y \in set : x <= y
         IN  <<least>> \o Ascending(set \ {least})

\* the door list of room id of the result, for the iteration order of adj[id] that
\* ascends (neither the order nor the wall of a door plays a part here)
DoorListOf(id) ==
    Doors(Ascending(dungeon.rooms[id].connectsTo), <<"left", "right", "top", "bottom">>)

\* transitionToRoom line 2232: target.doors.find(d => d.connectsTo === fromRoomId)
EntranceDoors(doors, fromRoomId) ==
    {i \in DOMAIN doors : doors[i].connectsTo = fromRoomId}

\* C35: in every generateDungeon() result room A has a door with connectsTo = B if and
\* only if room B has a door with connectsTo = A, no room has a door to itself, no room
\* has two doors to the same room, and for every door from A to B the door list of B
\* holds the entrance door transitionToRoom(A, B) looks for.
C35_DoorsSymmetric ==
    dungeon.pc = "done" =>
        LET doors == [id \in DOMAIN dungeon.rooms |-> DoorListOf(id)]
        IN  \A A \in DOMAIN dungeon.rooms :
                /\ \A i \in DOMAIN doors[A] :
                      LET B == doors[A][i].connectsTo
                      IN  /\ B \in DOMAIN dungeon.rooms
                          /\ B # A
                          /\ \A j \in DOMAIN doors[A] :
                                doors[A][j].connectsTo = B => j = i
                          /\ Cardinality(EntranceDoors(doors[B], A)) = 1
                /\ \A B \in DOMAIN dungeon.rooms :
                      EntranceDoors(doors[B], A) # {} => EntranceDoors(doors[A], B) # {}

\* a result of five rooms with both extra edges added, in which the start room has a
\* door to room 1 and room 1 has the door back
C35_Witness ==
    /\ dungeon.pc = "done"
    /\ DOMAIN dungeon.rooms = 0 .. 4
    /\ Cardinality({e \in (0 .. 4) \X (0 .. 4) :
                       e[1] < e[2] /\ e[2] \in dungeon.rooms[e[1]].connectsTo}) = 6
    /\ EntranceDoors(DoorListOf(0), 1) # {}
    /\ EntranceDoors(DoorListOf(1), 0) # {}

----------------------------------------------------------------------------
(* Handlers that change the active list while an event is emitted *)

\* the hooks of list that emitGameEvent(eventName) has a handler to call for
Callable(list, eventName) ==
    {m \in Range(list) :
        m.type = "hook" /\ m.event = eventName /\ m.handler # "notAFunction"}

\* the hooks whose handler an emission called
CalledIn(log) == {log[i][1] : i \in DOMAIN log}

\* C36: emitGameEvent invokes exactly the hooks that were in the active list when the
\* call started: a hook that a handler removes during the emission is still invoked, a
\* hook that a handler registers during the emission is not, and (being in the list
\* when the next call starts) it is invoked by the next emitGameEvent of its event.
C36_EmissionUsesListAtStart ==
    [][lastOp'.op = "emitGameEvent" =>
        LET eventName == lastOp'.arg[1]
            called == CalledIn(lastOp'.pre)
        IN  /\ called = Callable(activeModifiers, eventName)
            /\ \A m \in Range(activeModifiers') \ Range(activeModifiers) :
                  m \notin called
            /\ \A m \in Callable(activeModifiers, eventName) \ Range(activeModifiers') :
                  m \in called
    ]_vars

\* emitGameEvent('onPlayerHit') has called a handler that registered hook h5 and a
\* handler that removed hook h1 before its turn: h1 was still called, h5 was not and
\* is in the list for the next emission
C36_Witness ==
    /\ lastOp.op = "emitGameEvent" /\ lastOp.arg[1] = "onPlayerHit"
    /\ Len(lastOp.pre) = 3
    /\ lastOp.pre[1][1].handler = "registerHook"
    /\ lastOp.pre[2][1].handler = "removeH1"
    /\ lastOp.pre[3][1].id = "h1"
    /\ \A i \in DOMAIN lastOp.pre : lastOp.pre[i][1].id # "h5"
    /\ \E m \in Range(activeModifiers) : m.id = "h5"
    /\ \A m \in Range(activeModifiers) : m.id # "h1"

----------------------------------------------------------------------------
(* The 'unique' rule and the registrations that follow it *)

\* list holds a 'unique' entry and a second entry of the same (id, source)
UniqueShared(list) ==
    \E i, j \in DOMAIN list :
        i # j /\ list[i].stackRule = "unique" /\ SameIdentity(list[i], list[j])

\* C38: a list that holds a modifier registered under the 'unique' rule holds no
\* second entry with the same id and source, whatever the stackRule of the
\* registrations that followed it.
C38_UniqueStaysAlone ==
    ~UniqueShared(activeModifiers) /\ ~UniqueShared(globalModifiers)

----------------------------------------------------------------------------
(* The start-time maps against the lists *)

\* C40: every modifier that a start-time map tracks is an entry of the list the map
\* belongs to: a modifier that has left its list (by removeModifier, by the
\* replacement of the 'refresh' rule, by expiry or by the reset) has no start time
\* left in the map.
C40_TrackedAreListed ==
    /\ DOMAIN modifierStartTimes \subseteq Range(activeModifiers)
    /\ DOMAIN globalModifierStartTimes \subseteq Range(globalModifiers)

----------------------------------------------------------------------------
(* The elites of a room under the bullets of the player *)

SPLITTER_CHILD_SPEED == 180

\* lines 3696-3699: the two children a dead Splitter that is no child leaves
SplitterChildren(e) ==
    IF e.kind = "Splitter" /\ ~FieldOr(e, "isSplitterChild", FALSE)
    THEN [k \in 1 .. 2 |->
             [kind |-> "Splitter", speed |-> SPLITTER_CHILD_SPEED, health |-> 100,
              isSplitterChild |-> TRUE, room |-> e.room, slot |-> 10 * e.slot + k]]
    ELSE << >>

RECURSIVE ChildrenOf(_)
\* splitterChildrenToSpawn for the dead enemies, in the order they died
ChildrenOf(deadList) ==
    IF deadList = << >> THEN << >>
    ELSE SplitterChildren(Head(deadList)) \o ChildrenOf(Tail(deadList))

\* spawnEnemyWave() on entering a room: the room holds no enemy yet
EnterRoom(wave, d, roll, indexDraw, affixDraw) ==
    /\ enemies = << >>
    /\ SpawnEnemyWave(wave, d, roll, indexDraw, affixDraw)

\* one frame of the loop on the enemies of the room: applyEliteStats on each (line
\* 3660), the bullets (3667-3703), the removal of the dead and the arrival of the
\* children (4158-4159)
BulletFrame(bullets) ==
    /\ enemies # << >>
    /\ LET withStats == [i \in DOMAIN enemies |-> applyEliteStats(enemies[i])]
           shot == BulletLoop(bullets, 1,
                              [enemies |-> withStats, hitEnemies |-> {},
                               table |-> eliteModifiers, detached |-> << >>])
           kept == SelectSeqBy(shot.enemies, DOMAIN shot.enemies \ shot.hitEnemies)
       IN  /\ enemies' = kept \o ChildrenOf(shot.detached)
           /\ eliteModifiers' = shot.table
           /\ lastOp' = Op("frame", bullets,
                            [hitEnemies |-> shot.hitEnemies, withStats |-> withStats])
    /\ UNCHANGED <<activeModifiers, globalModifiers, modifierStartTimes,
                   globalModifierStartTimes, derivedStatsCache, derivedGlobalCache,
                   baseStats, clock, nextEliteId, dungeon>>

NextBullets ==
    \/ \E wave \in WaveListInputs, d \in DifficultyInputs,
          roll \in RollInputs, indexDraw \in DrawInputs, affixDraw \in DrawInputs :
          EnterRoom(wave, d, roll, indexDraw, affixDraw)
    \/ \E bullets \in BulletInputs : BulletFrame(bullets)

SpecBullets == Init /\ [][NextBullets]_vars

\* e is an elite of the frenzied affix
IsFrenzied(e) == FieldOr(e, "isElite", FALSE) /\ FieldOr(e, "affix", "") = "frenzied"

\* a live frenzied elite of the room is below half of its maximum health
FrenziedBelowHalf ==
    \E i \in DOMAIN enemies :
        /\ IsFrenzied(enemies[i]) /\ enemies[i].health > 0
        /\ LowHp(enemies[i].health, enemies[i].maxHealth)

\* a live elite of another affix is below half of its maximum health
OtherEliteBelowHalf ==
    \E i \in DOMAIN enemies :
        /\ FieldOr(enemies[i], "isElite", FALSE) /\ ~IsFrenzied(enemies[i])
        /\ enemies[i].health > 0
        /\ LowHp(enemies[i].health, enemies[i].maxHealth)

\* C39: the bullets of the player bring a frenzied elite below half of its maximum
\* health while it lives, so that the applyEliteStats call of a frame finds
\* health / maxHealth < 0.5 and applies the low-HP bonus before the elite dies: the
\* frenzied elite that dies in a frame was below half at the call of that frame.
C39_FrenziedLowBeforeDeath ==
    [][lastOp'.op = "frame" =>
        \A i \in lastOp'.pre.hitEnemies :
            LET e == lastOp'.pre.withStats[i]
            IN  IsFrenzied(e) => LowHp(e.health, e.maxHealth)
    ]_vars

----------------------------------------------------------------------------
(* The rooms the door transitions of the loop lead to *)

\* loop lines 3865-3868: the rooms the doors of room id take the player to when
\* bossDoorsUnlocked is unlocked (a door to the boss room is skipped while it is not)
OpenDoors(rooms, unlocked) ==
    [id \in DOMAIN rooms |->
        {to \in rooms[id].connectsTo : ~(rooms[to].isBossRoom /\ ~unlocked)}]

\* the rooms the player can stand in while the boss doors are locked
Enterable(rooms, startRoomId) == ReachedFrom(OpenDoors(rooms, FALSE), {startRoomId})

\* C37: in every generated dungeon the door transitions of the loop lead from the start
\* room into every room: every non-boss room can be entered, and so cleared, while the
\* doors of the boss room are still locked, after which the boss room is unlocked and
\* entered.
C37_EveryRoomEnterable ==
    dungeon.pc = "done" =>
        \A id \in DOMAIN dungeon.rooms :
            ~dungeon.rooms[id].isBossRoom =>
                id \in Enterable(dungeon.rooms, dungeon.startRoomId)

====
